---- MODULE Spec2Model ----
(***************************************************************************)
(* Model of the mediapackage export/merge core of oc-tools                 *)
(* (src/migration/migration.py): the path resolution of the exporters,     *)
(* the export pass of ArchiveServiceExport and PublishServiceExport with   *)
(* its filters and the flattening of SMIL descriptors, and the Export      *)
(* coordinator that merges the results of several exporters.               *)
(*                                                                         *)
(* Representation.  A path or URL path is a sequence of segments; a        *)
(* segment is a record [tag, stem, ext]: "mp4:video.mp4" is                *)
(* [tag |-> "mp4", stem |-> "video", ext |-> ".mp4"].  A URL is            *)
(* [netloc, segs]: netloc says whether the URL has a scheme and a server   *)
(* name.  A Python dict is a function, None for a mediapackage is the      *)
(* empty sequence and a mediapackage m is <<m>>.  An exception is the      *)
(* name of its class in the field exc of a result, "" when none is raised. *)
(***************************************************************************)
EXTENDS Integers, Sequences, FiniteSets, TLC

VARIABLES
    files,      \* the regular files of the filesystem (a set of paths)
    smilFiles,  \* the content of each SMIL descriptor: path -> <<video, ...>>
    backend,    \* endpoint -> the mediapackages its id query returns
    services,   \* the exporters registered in Export: <<_main>> \o _slaves
    exp,        \* the Export object: [mp, paths]
    filters,    \* the configured filter_by_flavor, filter_by_tag, filter_tags
    outcome,    \* the last call of export: arguments and the exception raised
    res,        \* the last call of _get_paths: argument and result
    world,      \* a series run: the source and destination systems, the config
    disk,       \* the files under the destination directory: <<dir, name>> -> file
    run,        \* the position of migrate_mediapackages in its loop
    call,       \* the last call of migrate_mediapackage: argument and result
    sig,        \* a run of migration_copy or migration_curl and its SIGINTs
    oc,         \* a run of oc_delete and the system it works on
    pid         \* the instances of migration_series and the pidfile

vars == <<files, smilFiles, backend, services, exp, filters, outcome, res,
          world, disk, run, call, sig, oc, pid>>

\* the variables of the scripts beside the exporters and the series run
scriptVars == <<sig, oc, pid>>

\* ------------------------------------------------------------------ bounds
\* deepest URL path the path resolver is applied to
MaxDepth == 6
\* most videos in a SMIL descriptor
MaxVideos == 3
\* most elements in the media category of a fetched mediapackage
MaxMedia == 2
\* most exporters registered in one Export
MaxServices == 3

\* --------------------------------------------------------------- constants
SMIL_EXT == ".smil"
SMIL_TAG == "smil"
NoException == ""
MissingElementException == "MissingElementException"
DuplicateElementException == "DuplicateElementException"
NotFoundException == "NotFoundException"
TooManyResultsException == "TooManyResultsException"
AttributeError == "AttributeError"
TypeError == "TypeError"
\* MigrationException and its subclasses
MigrationException ==
    {MissingElementException, DuplicateElementException, NotFoundException,
     TooManyResultsException}

\* ------------------------------------------------------------------- paths
D(name) == [tag |-> "", stem |-> name, ext |-> ""]
F(name, ext) == [tag |-> "", stem |-> name, ext |-> ext]
Url(netloc, segs) == [netloc |-> netloc, segs |-> segs]

\* the text of one segment
SegText(seg) ==
    (IF seg.tag # "" THEN seg.tag \o ":" ELSE "") \o seg.stem \o seg.ext

\* posixpath.dirname
dirname(path) == IF path = <<>> THEN <<>> ELSE SubSeq(path, 1, Len(path) - 1)

\* posixpath.splitext(path)[1]
splitext(path) == IF path = <<>> THEN "" ELSE path[Len(path)].ext

\* posixpath.relpath(path, start), start being a prefix of path
relpath(path, start) == SubSeq(path, Len(start) + 1, Len(path))

\* os.path.join(parent, rel): an empty parent adds nothing
join(parent, rel) == IF parent = "" THEN rel ELSE <<D(parent)>> \o rel

\* os.path.isfile
isfile(fs, path) == path \in fs

\* urlparse.urlparse: a relative URL that starts with "tag:" is given the tag
\* as its scheme
urlparse(url) ==
    IF ~url.netloc /\ url.segs # <<>> /\ Head(url.segs).tag # ""
    THEN [scheme |-> Head(url.segs).tag, netloc |-> FALSE,
          path |-> <<[Head(url.segs) EXCEPT !.tag = ""]>> \o Tail(url.segs)]
    ELSE [scheme |-> IF url.netloc THEN "http" ELSE "", netloc |-> url.netloc,
          path |-> url.segs]

\* the segment holding the first ':' of the path, 0 when there is none
FirstTagged(path) ==
    IF \E i \in 1..Len(path) : path[i].tag # ""
    THEN CHOOSE i \in 1..Len(path) :
            /\ path[i].tag # ""
            /\ \A j \in 1..(i - 1) : path[j].tag = ""
    ELSE 0

\* a faulty mount point, which lies four levels above a SMIL file too
root_path_four_levels(path, ext) == dirname(dirname(dirname(dirname(path))))

\* the server "mount point" of _get_clean_path: what lies above
\* distribution-channel/mediapackage-id/element-id/filename.extension, or the
\* directory of a SMIL file
root_path(path, ext) ==
    IF ext # SMIL_EXT THEN dirname(dirname(dirname(dirname(path))))
    ELSE dirname(path)

\* a faulty test, which lets the tag replace an extension that differs from it
tag_is_extension_on_conflict(tag, ext) == tag # "" /\ ext # "." \o tag

\* the test of _get_clean_path for appending the tag as the extension: the
\* path has no extension and the URL has a tag
tag_is_extension(tag, ext) == ext = "" /\ tag # ""

\* PublishServiceExport._get_clean_path
get_clean_path(url) ==
    LET \* the path relative to the root of the distribution directory
        Relative(path, ext) == relpath(path, root_path(path, ext))
        \* a path without extension gets the tag as its extension
        WithExt(tag, path1, ext1) ==
            IF tag_is_extension(tag, ext1)
            THEN Relative(IF path1 = <<>> THEN <<D("." \o tag)>>
                          ELSE [path1 EXCEPT ![Len(path1)].ext = "." \o tag],
                          "." \o tag)
            ELSE Relative(path1, ext1)
        \* a SMIL path loses its last component
        Clean(tag, path1) == WithExt(tag, path1, splitext(path1))
        Tagged(tag, path0) ==
            Clean(tag, IF tag = SMIL_TAG THEN dirname(path0) ELSE path0)
        \* the tag is the scheme, or what precedes the first ':' of the path
        Untag(parsed, i) ==
            IF parsed.scheme # "" /\ ~parsed.netloc
            THEN Tagged(parsed.scheme, parsed.path)
            ELSE IF i > 0
            THEN Tagged(parsed.path[i].tag, [parsed.path EXCEPT ![i].tag = ""])
            ELSE Tagged("", parsed.path)
        Parsed(parsed) == Untag(parsed, FirstTagged(parsed.path))
    IN  Parsed(urlparse(url))

\* PublishServiceExport.__get_src_path: search is the order in which the set
\* __search_dirs is iterated
get_src_path(search, fs, rel_path) ==
    LET First(hits) ==
            IF hits = {} THEN [exc |-> MissingElementException, src |-> <<>>]
            ELSE [exc |-> NoException,
                  src |-> join(search[CHOOSE i \in hits : \A j \in hits : i <= j],
                               rel_path)]
    IN  First({i \in 1..Len(search) : isfile(fs, join(search[i], rel_path))})

\* a faulty __get_dst_path, which keeps three levels of the path
get_dst_path_three_levels(rel_path) ==
    IF splitext(rel_path) = SMIL_EXT THEN rel_path
    ELSE relpath(rel_path, dirname(dirname(dirname(rel_path))))

\* PublishServiceExport.__get_dst_path
get_dst_path(rel_path) ==
    IF splitext(rel_path) = SMIL_EXT THEN rel_path
    ELSE relpath(rel_path, dirname(dirname(rel_path)))

\* ArchiveServiceExport._get_paths: the URL path ends in
\* mp_id/element_id/version/filename.ext, the file is
\* arch_dir/mp_id/version/element_id.ext and is exported to
\* element_id/filename.ext.  A component the path is too short for is empty.
Archive_get_paths(arch_dir, fs, url) ==
    LET Comp(url_path, k) ==
            IF Len(url_path) >= k THEN <<url_path[Len(url_path) - k + 1]>> ELSE <<>>
        Paths(src_path, dst_path) ==
            IF ~isfile(fs, src_path)
            THEN [exc |-> MissingElementException, src |-> <<>>, dst |-> <<>>]
            ELSE [exc |-> NoException, src |-> src_path, dst |-> dst_path]
        Split(filename, version, element_id, mp_id, extension) ==
            Paths(IF filename = <<>> THEN join(arch_dir, <<>>)
                  ELSE join(arch_dir,
                            mp_id \o version \o
                            (IF element_id = <<>> THEN <<F("", extension)>>
                             ELSE <<F(SegText(element_id[1]), extension)>>)),
                  element_id \o filename)
        Parsed(url_path) ==
            Split(Comp(url_path, 1), Comp(url_path, 2), Comp(url_path, 3),
                  Comp(url_path, 4), splitext(url_path))
    IN  Parsed(urlparse(url).path)

\* a faulty _get_paths, which does not try the archive
publish_paths_no_fallback(svc, fs, clean_path, found) ==
    IF found.exc = NoException
    THEN [exc |-> NoException, src |-> found.src, dst |-> get_dst_path(clean_path)]
    ELSE [exc |-> MissingElementException, src |-> <<>>, dst |-> <<>>]

\* the paths of PublishServiceExport._get_paths, found being what
\* self.__get_src_path(clean_path) returns or raises
publish_paths(svc, fs, clean_path, found) ==
    IF found.exc = NoException
    THEN [exc |-> NoException, src |-> found.src, dst |-> get_dst_path(clean_path)]
    ELSE IF svc.arch_dir # ""
    THEN Archive_get_paths(svc.arch_dir, fs, Url(FALSE, clean_path))
    ELSE [exc |-> MissingElementException, src |-> <<>>, dst |-> <<>>]

\* PublishServiceExport._get_paths after self._get_clean_path
clean_paths(svc, fs, clean_path) ==
    publish_paths(svc, fs, clean_path, get_src_path(svc.search, fs, clean_path))

\* PublishServiceExport._get_paths: the search directories first, then, when an
\* archive directory is configured, the archive's naming convention
Publish_get_paths(svc, fs, url) == clean_paths(svc, fs, get_clean_path(url))

\* self._get_paths, by the class of the exporter
get_paths(svc, fs, url) ==
    IF svc.kind = "publish" THEN Publish_get_paths(svc, fs, url)
    ELSE Archive_get_paths(svc.arch_dir, fs, url)

\* --------------------------------------------------------------- exporters
EmptyDict == [k \in {} |-> <<>>]
None == <<>>

\* ServiceExport.__init__, ArchiveServiceExport.__init__ and
\* PublishServiceExport.__init__: search is the iteration order of the set
\* built from search_dirs
NewService(kind, search, arch_dir) ==
    [kind |-> kind, search |-> search, arch_dir |-> arch_dir,
     mp |-> None, paths |-> EmptyDict, exported |-> EmptyDict,
     quality_tags |-> <<>>, elements_from_smil |-> <<>>, log |-> <<>>]

\* Export.__init__: no tree and no path map before the first export
NewExport == [mp |-> None, paths |-> None]

NoCall == [op |-> "none"]

\* ------------------------------------------------------------ text of tags
\* the characters (ord) of the tags that occur in the mediapackages
Chars(tag) ==
    CASE tag = "engage" -> <<101, 110, 103, 97, 103, 101>>
      [] tag = "archive" -> <<97, 114, 99, 104, 105, 118, 101>>
      [] tag = "high-quality" ->
            <<104, 105, 103, 104, 45, 113, 117, 97, 108, 105, 116, 121>>
      [] tag = "medium-quality" ->
            <<109, 101, 100, 105, 117, 109, 45, 113, 117, 97, 108, 105, 116, 121>>
      [] tag = "low-quality" ->
            <<108, 111, 119, 45, 113, 117, 97, 108, 105, 116, 121>>

\* "-quality"
QUALITY_TAG_SUFFIX == <<45, 113, 117, 97, 108, 105, 116, 121>>

\* str.endswith
endswith(str, suffix) ==
    /\ Len(str) >= Len(suffix)
    /\ SubSeq(str, Len(str) - Len(suffix) + 1, Len(str)) = suffix

\* PublishServiceExport.is_quality_tag
is_quality_tag(tag) == endswith(Chars(tag), QUALITY_TAG_SUFFIX)

\* a < b for two Python 2 str
RECURSIVE str_lt(_, _)
str_lt(a, b) ==
    IF a = <<>> THEN b # <<>>
    ELSE IF b = <<>> THEN FALSE
    ELSE IF Head(a) # Head(b) THEN Head(a) < Head(b)
    ELSE str_lt(Tail(a), Tail(b))

\* list(sorted(tags, reverse=True)) of a set of str
RECURSIVE sorted_reverse(_)
sorted_reverse(tags) ==
    IF tags = {} THEN <<>>
    ELSE LET top == CHOOSE t \in tags :
                        \A u \in tags \ {t} : str_lt(Chars(u), Chars(t))
         IN  <<top>> \o sorted_reverse(tags \ {top})

\* int() of a string of decimal digits, given as the sequence of its digits
RECURSIVE int(_)
int(digits) ==
    IF digits = <<>> THEN 0
    ELSE 10 * int(SubSeq(digits, 1, Len(digits) - 1)) + digits[Len(digits)]

\* ----------------------------------------------------------- mediapackages
\* A mediapackage is [id, present, elems]: present holds the categories the
\* tree has, elems[c] the elements of category c in document order.  An
\* element is [id, type, tags, url].
Categories == {"media", "metadata", "attachments", "publications"}

\* the elements of the tree that have a url child, in document order
Work(mp) ==
    LET W(c) == [i \in 1..Len(mp.elems[c]) |-> [cat |-> c, el |-> mp.elems[c][i]]]
    IN  W("media") \o W("metadata") \o W("attachments") \o W("publications")

\* the tree with its elements replaced by those of the list out
WithElements(mp, out) ==
    [mp EXCEPT !.elems =
        [c \in Categories |->
            LET InCat(w) == w.cat = c
                mine == SelectSeq(out, InCat)
            IN  [i \in 1..Len(mine) |-> mine[i].el]]]

\* the text of every tag element of the tree
AllTags(mp) ==
    LET work == Work(mp)
    IN  UNION {{work[k].el.tags[i] : i \in 1..Len(work[k].el.tags)} :
                    k \in 1..Len(work)}

\* a dict with d[key] = value
Put(d, key, value) ==
    [k \in DOMAIN d \cup {key} |-> IF k = key THEN value ELSE d[k]]

\* dict.update
update(d, other) ==
    [k \in DOMAIN d \cup DOMAIN other |-> IF k \in DOMAIN other THEN other[k] ELSE d[k]]

\* a faulty reset, which keeps the path map
reset_keeping_paths(svc) ==
    [svc EXCEPT !.mp = None, !.quality_tags = <<>>, !.elements_from_smil = <<>>]

\* ServiceExport.reset and PublishServiceExport.reset
reset(svc) ==
    [svc EXCEPT !.mp = None, !.paths = EmptyDict, !.exported = EmptyDict,
                !.quality_tags = <<>>, !.elements_from_smil = <<>>]

\* PublishServiceExport.__extract_quality_tags
extract_quality_tags(mp) ==
    sorted_reverse({t \in AllTags(mp) : is_quality_tag(t)})

\* the endpoint an exporter queries
Endpoint(svc) == IF svc.kind = "publish" THEN "search" ELSE "archive"

\* a faulty _get_unique_mp, which takes the first of several results
get_unique_mp_first(svc, found) ==
    IF Len(found) >= 1
    THEN [exc |-> NoException,
          svc |-> [svc EXCEPT !.mp = <<found[1]>>,
                              !.quality_tags =
                                  IF svc.kind = "publish"
                                  THEN extract_quality_tags(found[1]) ELSE @]]
    ELSE [exc |-> NotFoundException, svc |-> svc]

\* ServiceExport._get_unique_mp, and PublishServiceExport._get_unique_mp, which
\* extracts the quality tags of the mediapackage found; found is the list of
\* mediapackages the endpoint returns for the id
get_unique_mp(svc, found) ==
    IF Len(found) = 1
    THEN [exc |-> NoException,
          svc |-> [svc EXCEPT !.mp = <<found[1]>>,
                              !.quality_tags =
                                  IF svc.kind = "publish"
                                  THEN extract_quality_tags(found[1]) ELSE @]]
    ELSE IF Len(found) = 0
    THEN [exc |-> NotFoundException, svc |-> svc]
    ELSE [exc |-> TooManyResultsException, svc |-> svc]

\* a faulty export_element, which accepts a destination that is registered
\* with the same source
export_element_same_source(svc, fs, el) ==
    LET Event(got, exc, after) ==
            [ev |-> "export_element", id |-> el.id, url |-> el.url,
             src |-> got.src, dst |-> got.dst, exc |-> exc, after |-> after]
        Added(got, paths) ==
            [exc |-> NoException,
             svc |-> [svc EXCEPT !.paths = paths,
                         !.exported = Put(@, got.dst, el.id),
                         !.log = Append(@, Event(got, NoException, paths))],
             el |-> [el EXCEPT !.url = Url(FALSE, got.dst)]]
        Register(got) ==
            IF got.exc # NoException
            THEN [exc |-> got.exc, svc |-> svc, el |-> el]
            ELSE IF got.dst \in DOMAIN svc.paths /\ svc.paths[got.dst] # got.src
            THEN [exc |-> DuplicateElementException,
                  svc |-> [svc EXCEPT !.log =
                              Append(@, Event(got, DuplicateElementException,
                                              svc.paths))],
                  el |-> el]
            ELSE Added(got, Put(svc.paths, got.dst, got.src))
    IN  Register(get_paths(svc, fs, el.url))

\* ServiceExport.export_element: register the paths of the element, or raise
\* when its destination is already in the path map.  The log of the exporter
\* records each call whose paths were computed: the element, its paths, the
\* exception raised and the path map the call leaves.
ServiceExport_export_element(svc, fs, el) ==
    LET Event(got, exc, after) ==
            [ev |-> "export_element", id |-> el.id, url |-> el.url,
             src |-> got.src, dst |-> got.dst, exc |-> exc, after |-> after]
        Added(got, paths) ==
            [exc |-> NoException,
             svc |-> [svc EXCEPT !.paths = paths,
                         !.exported = Put(@, got.dst, el.id),
                         !.log = Append(@, Event(got, NoException, paths))],
             el |-> [el EXCEPT !.url = Url(FALSE, got.dst)]]
        Register(got) ==
            IF got.exc # NoException
            THEN [exc |-> got.exc, svc |-> svc, el |-> el]
            ELSE IF got.dst \in DOMAIN svc.paths
            THEN [exc |-> DuplicateElementException,
                  svc |-> [svc EXCEPT !.log =
                              Append(@, Event(got, DuplicateElementException,
                                              svc.paths))],
                  el |-> el]
            ELSE Added(got, Put(svc.paths, got.dst, got.src))
    IN  Register(get_paths(svc, fs, el.url))

\* ArchiveServiceExport.export_element: a duplicate is removed from the tree.
\* keep says whether the element stays in the tree.
Archive_export_element(svc, fs, el) ==
    LET Exported(done) ==
            IF done.exc = DuplicateElementException
            THEN [exc |-> NoException, svc |-> done.svc, keep |-> FALSE, el |-> el]
            ELSE [exc |-> done.exc, svc |-> done.svc, keep |-> TRUE, el |-> done.el]
    IN  Exported(ServiceExport_export_element(svc, fs, el))

\* a faulty sort, which leaves the videos in the order of the SMIL file
sorted_in_file_order(videos) == videos

\* sorted(videos, key=int(video-bitrate), reverse=True): a stable sort
RECURSIVE sorted_by_bitrate(_)
sorted_by_bitrate(videos) ==
    IF videos = <<>> THEN <<>>
    ELSE LET v == videos[Len(videos)]
             front == sorted_by_bitrate(SubSeq(videos, 1, Len(videos) - 1))
             NotLower(w) == int(w.bitrate) >= int(v.bitrate)
             Lower(w) == int(w.bitrate) < int(v.bitrate)
         IN  SelectSeq(front, NotLower) \o <<v>> \o SelectSeq(front, Lower)

\* os.path.basename
basename(path) == IF path = <<>> THEN "" ELSE SegText(path[Len(path)])

\* a faulty end test, which does not ignore an empty list of quality tags
no_more_qualities_by_length(quality_tags, tag_index) ==
    tag_index >= Len(quality_tags)

\* the test that ends the loop of __export_from_smil
no_more_qualities(quality_tags, tag_index) ==
    quality_tags # <<>> /\ tag_index >= Len(quality_tags)

\* a faulty tag_index, which moves on for a duplicate video too
next_tag_index_always(quality_tags, tag_index, exc) ==
    IF quality_tags # <<>> THEN tag_index + 1 ELSE tag_index

\* tag_index after one video: it moves on only when a quality tag was given
next_tag_index(quality_tags, tag_index, exc) ==
    IF exc = NoException /\ quality_tags # <<>> THEN tag_index + 1 ELSE tag_index

\* the tags of a new track: those of the model element and the quality tag
track_tags(tags, quality_tags, tag_index) ==
    IF quality_tags # <<>> THEN Append(tags, quality_tags[tag_index + 1]) ELSE tags

\* the loop of __export_from_smil over the sorted videos, from video k on;
\* tag_index counts from 0 as in the code
RECURSIVE smil_loop(_, _, _, _, _, _)
smil_loop(svc, fs, model, videos, k, tag_index) ==
    IF k > Len(videos) \/ no_more_qualities(svc.quality_tags, tag_index)
    THEN [exc |-> NoException, svc |-> svc]
    ELSE LET Track(done, track, next) ==
                 smil_loop([done.svc EXCEPT
                               !.elements_from_smil = Append(@, track),
                               !.exported = Put(@, done.el.url.segs, track.id)],
                           fs, model, videos, k + 1, next)
             Exported(done, next) ==
                 IF done.exc = DuplicateElementException
                 THEN smil_loop(done.svc, fs, model, videos, k + 1, next)
                 ELSE IF done.exc # NoException
                 THEN [exc |-> done.exc, svc |-> done.svc]
                 ELSE Track(done,
                            [done.el EXCEPT
                                !.id = basename(dirname(done.el.url.segs)),
                                !.tags = track_tags(@, svc.quality_tags, tag_index)],
                            next)
             Video(done) ==
                 Exported(done, next_tag_index(svc.quality_tags, tag_index, done.exc))
         IN  Video(ServiceExport_export_element(
                       svc, fs, [model EXCEPT !.url = videos[k].src]))

\* PublishServiceExport.__export_from_smil: the element returned is the model
\* element, without its quality tags.  The log records the call: the entries of
\* its videos are those from position first on, tracks are the elements it made.
export_from_smil(svc, fs, smil, smil_element, smil_path) ==
    LET NoQuality(t) == t \notin {svc.quality_tags[i] : i \in 1..Len(svc.quality_tags)}
        Event(model, done) ==
            [ev |-> "export_from_smil", id |-> smil_element.id,
             smil_path |-> smil_path, quality_tags |-> svc.quality_tags,
             model_tags |-> model.tags, first |-> Len(svc.log) + 1,
             tracks |-> SubSeq(done.svc.elements_from_smil,
                               Len(svc.elements_from_smil) + 1,
                               Len(done.svc.elements_from_smil)),
             exc |-> done.exc]
        Flattened(model, done) ==
            [exc |-> done.exc,
             svc |-> [done.svc EXCEPT !.log = Append(@, Event(model, done))],
             el |-> model]
    IN  Flattened([smil_element EXCEPT !.tags = SelectSeq(@, NoQuality)],
                  smil_loop(svc, fs,
                            [smil_element EXCEPT !.tags = SelectSeq(@, NoQuality)],
                            sorted_by_bitrate(smil[smil_path]), 1, 0))

\* the SMIL branch of PublishServiceExport.export_element: the videos of the
\* file at self.__get_src_path(clean_path) are exported and the element is
\* removed from the tree
export_smil_element(done, fs, smil, found) ==
    LET Flattened(flat) ==
            [exc |-> flat.exc, svc |-> flat.svc, keep |-> flat.exc # NoException,
             el |-> flat.el]
    IN  IF found.exc # NoException
        THEN [exc |-> found.exc, svc |-> done.svc, keep |-> TRUE, el |-> done.el]
        ELSE Flattened(export_from_smil(done.svc, fs, smil, done.el, found.src))

\* a faulty PublishServiceExport.export_element, which leaves a duplicate in
\* the tree
publish_exported_keeping_duplicates(svc, fs, smil, el, clean_path, done) ==
    IF done.exc = DuplicateElementException
    THEN [exc |-> NoException, svc |-> done.svc, keep |-> TRUE, el |-> el]
    ELSE IF done.exc # NoException \/ splitext(clean_path) # SMIL_EXT
    THEN [exc |-> done.exc, svc |-> done.svc, keep |-> TRUE, el |-> done.el]
    ELSE export_smil_element(done, fs, smil,
                             get_src_path(svc.search, fs, clean_path))

\* PublishServiceExport.export_element after ServiceExport.export_element has
\* returned done for the element el
publish_exported(svc, fs, smil, el, clean_path, done) ==
    IF done.exc = DuplicateElementException
    THEN [exc |-> NoException, svc |-> done.svc, keep |-> FALSE, el |-> el]
    ELSE IF done.exc # NoException \/ splitext(clean_path) # SMIL_EXT
    THEN [exc |-> done.exc, svc |-> done.svc, keep |-> TRUE, el |-> done.el]
    ELSE export_smil_element(done, fs, smil,
                             get_src_path(svc.search, fs, clean_path))

\* PublishServiceExport.export_element: duplicates and SMIL elements are
\* removed from the tree, the videos of a SMIL file are exported
Publish_export_element(svc, fs, smil, el) ==
    publish_exported(svc, fs, smil, el, get_clean_path(el.url),
                     ServiceExport_export_element(svc, fs, el))

\* self.export_element, by the class of the exporter
export_element(svc, fs, smil, el) ==
    IF svc.kind = "publish" THEN Publish_export_element(svc, fs, smil, el)
    ELSE Archive_export_element(svc, fs, el)

\* a faulty loop over the tags, which iterates over a list that shrinks under
\* it: the tag after a removed one is not looked at
RECURSIVE filter_tag_loop_skipping(_, _, _, _)
filter_tag_loop_skipping(tags, i, filter_by_tag, filter_tags) ==
    IF i > Len(tags) THEN [removed |-> FALSE, tags |-> <<>>]
    ELSE IF filter_by_tag # {} /\ tags[i] \in filter_by_tag
    THEN [removed |-> TRUE, tags |-> SubSeq(tags, i, Len(tags))]
    ELSE IF filter_tags # {} /\ tags[i] \in filter_tags
    THEN LET rest == filter_tag_loop_skipping(tags, i + 2, filter_by_tag,
                                              filter_tags)
         IN  [removed |-> rest.removed,
              tags |-> (IF i + 1 <= Len(tags) THEN <<tags[i + 1]>> ELSE <<>>)
                       \o rest.tags]
    ELSE LET rest == filter_tag_loop_skipping(tags, i + 1, filter_by_tag,
                                              filter_tags)
         IN  [removed |-> rest.removed, tags |-> <<tags[i]>> \o rest.tags]

\* the loop over the tags of one element in ServiceExport.export, from tag i
\* on: removed says that a tag of filter_by_tag was met, tags are the tags
\* left.  lxml's iterators hold the next node before they return the current
\* one, so removing the current tag skips nothing.
RECURSIVE filter_tag_loop(_, _, _, _)
filter_tag_loop(tags, i, filter_by_tag, filter_tags) ==
    IF i > Len(tags) THEN [removed |-> FALSE, tags |-> <<>>]
    ELSE IF filter_by_tag # {} /\ tags[i] \in filter_by_tag
    THEN [removed |-> TRUE, tags |-> SubSeq(tags, i, Len(tags))]
    ELSE LET rest == filter_tag_loop(tags, i + 1, filter_by_tag, filter_tags)
         IN  [removed |-> rest.removed,
              tags |-> (IF filter_tags # {} /\ tags[i] \in filter_tags
                        THEN <<>> ELSE <<tags[i]>>) \o rest.tags]

\* one turn of the loop of ServiceExport.export: the element is filtered
\* out or exported
export_step(svc, fs, smil, el, flt) ==
    LET Filtered(why) ==
            [exc |-> NoException, keep |-> FALSE, el |-> el,
             svc |-> [svc EXCEPT !.log =
                         Append(@, [ev |-> "filtered", id |-> el.id, why |-> why])]]
    IN  IF flt.filter_by_flavor # {} /\ el.type \in flt.filter_by_flavor
        THEN Filtered("flavor")
        ELSE LET left == IF flt.filter_by_tag # {} \/ flt.filter_tags # {}
                         THEN filter_tag_loop(el.tags, 1, flt.filter_by_tag,
                                              flt.filter_tags)
                         ELSE [removed |-> FALSE, tags |-> el.tags]
             IN  IF left.removed THEN Filtered("tag")
                 ELSE export_element(svc, fs, smil, [el EXCEPT !.tags = left.tags])

\* the loop of ServiceExport.export over the url elements of the tree, from
\* the k-th on: out lists the elements left in the tree.  An exception ends
\* the loop and leaves the later elements as they are.
RECURSIVE export_loop(_, _, _, _, _, _)
export_loop(svc, fs, smil, work, k, flt) ==
    IF k > Len(work) THEN [exc |-> NoException, svc |-> svc, out |-> <<>>]
    ELSE LET Rest(mine, rest) ==
                 [exc |-> rest.exc, svc |-> rest.svc, out |-> mine \o rest.out]
             Kept(step, mine) ==
                 IF step.exc # NoException
                 THEN [exc |-> step.exc, svc |-> step.svc,
                       out |-> mine \o SubSeq(work, k + 1, Len(work))]
                 ELSE Rest(mine, export_loop(step.svc, fs, smil, work, k + 1, flt))
             Step(step) ==
                 Kept(step, IF step.keep
                            THEN <<[cat |-> work[k].cat, el |-> step.el]>> ELSE <<>>)
         IN  Step(export_step(svc, fs, smil, work[k].el, flt))

\* the tree without its publications category
remove_publications(mp) ==
    [mp EXCEPT !.present = @ \ {"publications"},
               !.elems = [@ EXCEPT !["publications"] = <<>>]]

\* the first step of ServiceExport.export: the tree of the exporter is looked
\* up for an identifier, and is the argument itself for anything else.  mediap
\* is [kind |-> "id"] for an identifier, for which found is what the endpoint
\* returns, or [kind |-> "tree", mp |-> m].  The log starts with the outcome of
\* the lookup.
set_mediapackage(fresh, found, mediap) ==
    LET Looked(looked) ==
            [exc |-> looked.exc,
             svc |-> [looked.svc EXCEPT !.log =
                         <<[ev |-> "_get_unique_mp", exc |-> looked.exc]>>]]
    IN  IF mediap.kind = "id" THEN Looked(get_unique_mp(fresh, found))
        ELSE [exc |-> NoException, svc |-> [fresh EXCEPT !.mp = mediap.mp]]

\* the rest of ServiceExport.export for the tree mp: its elements are filtered
\* and exported
export_tree(svc, fs, smil, mp, flt) ==
    LET Exported(done) ==
            [exc |-> done.exc,
             svc |-> [done.svc EXCEPT !.mp = <<WithElements(mp, done.out)>>]]
    IN  Exported(export_loop(svc, fs, smil, Work(mp), 1, flt))

\* ServiceExport.export after its first step: a failed lookup resets the
\* exporter and returns, a tree of None has no tag
export_mediapackage(got, fs, smil, flt) ==
    IF got.exc \in MigrationException
    THEN [exc |-> NoException, svc |-> reset(got.svc)]
    ELSE IF got.svc.mp = None
    THEN [exc |-> AttributeError, svc |-> got.svc]
    ELSE export_tree(got.svc, fs, smil, remove_publications(got.svc.mp[1]), flt)

\* ServiceExport.export
ServiceExport_export(svc, fs, smil, found, mediap, flt) ==
    export_mediapackage(
        set_mediapackage(reset([svc EXCEPT !.log = <<>>]), found, mediap),
        fs, smil, flt)

\* PublishServiceExport.export, done being what ServiceExport.export returns:
\* the tracks made from SMIL files are added to the media category
Publish_export(done) ==
    IF done.exc # NoException \/ done.svc.mp = None THEN done
    ELSE IF "media" \notin done.svc.mp[1].present
    THEN [exc |-> AttributeError, svc |-> done.svc]
    ELSE [exc |-> NoException,
          svc |-> [done.svc EXCEPT !.mp =
                      <<[@[1] EXCEPT !.elems["media"] =
                            @ \o done.svc.elements_from_smil]>>]]

\* service.export, by the class of the exporter
service_export(svc, fs, smil, found, mediap, flt) ==
    LET Class(done) == IF svc.kind = "publish" THEN Publish_export(done) ELSE done
    IN  Class(ServiceExport_export(svc, fs, smil, found, mediap, flt))

\* ------------------------------------------------------------------ Export
\* Export.MERGE_CATEGORIES
MERGE_CATEGORIES == <<"media", "attachments">>

\* Export._merge_mp, from category k of MERGE_CATEGORIES on: iterating over a
\* category the merged tree lacks raises TypeError; appending to a category
\* the current tree lacks raises AttributeError, which ends the merge silently
RECURSIVE merge_mp_loop(_, _, _)
merge_mp_loop(mp, mp_copy, k) ==
    IF k > Len(MERGE_CATEGORIES) THEN [exc |-> NoException, mp |-> mp]
    ELSE LET category == MERGE_CATEGORIES[k]
         IN  IF category \notin mp_copy.present
             THEN [exc |-> TypeError, mp |-> mp]
             ELSE IF mp_copy.elems[category] = <<>>
             THEN merge_mp_loop(mp, mp_copy, k + 1)
             ELSE IF category \notin mp.present
             THEN [exc |-> NoException, mp |-> mp]
             ELSE merge_mp_loop(
                     [mp EXCEPT !.elems[category] = @ \o mp_copy.elems[category]],
                     mp_copy, k + 1)

merge_mp(mp, mp_to_merge) == merge_mp_loop(mp, mp_to_merge, 1)

\* a faulty _merge_paths, in which the exporter merged last wins a conflict
merge_paths_last_wins(paths, paths_to_merge) == update(paths, paths_to_merge)

\* Export._merge_paths
merge_paths(paths, paths_to_merge) ==
    LET intersect == {dst \in DOMAIN paths_to_merge :
                        dst \in DOMAIN paths /\ paths_to_merge[dst] # paths[dst]}
    IN  update(paths, [dst \in DOMAIN paths_to_merge \ intersect |->
                          paths_to_merge[dst]])

\* the loop of Export.export over the slaves, from exporter i on; each is
\* asked for self._main.mediapackage_id, which is None when the main exporter
\* has no mediapackage.  where names the call that raised the exception.
RECURSIVE slaves_loop(_, _, _, _, _, _, _)
slaves_loop(svcs, ex, i, fs, smil, be, flt) ==
    IF i > Len(svcs)
    THEN [exc |-> NoException, where |-> "", services |-> svcs, exp |-> ex]
    ELSE LET Merged(done, svcs1, merged) ==
                 IF merged.exc # NoException
                 THEN [exc |-> merged.exc, where |-> "_merge_mp",
                       services |-> svcs1,
                       exp |-> [ex EXCEPT !.mp = <<merged.mp>>]]
                 ELSE slaves_loop(
                         svcs1,
                         [mp |-> <<merged.mp>>,
                          paths |-> merge_paths(ex.paths, done.svc.paths)],
                         i + 1, fs, smil, be, flt)
             Exported(done, svcs1) ==
                 IF done.exc # NoException
                 THEN [exc |-> done.exc, where |-> "export", services |-> svcs1,
                       exp |-> ex]
                 ELSE IF done.svc.mp = None
                 THEN slaves_loop(svcs1, ex, i + 1, fs, smil, be, flt)
                 ELSE IF ex.mp = None
                 THEN slaves_loop(svcs1,
                                  [mp |-> done.svc.mp,
                                   paths |-> update(ex.paths, done.svc.paths)],
                                  i + 1, fs, smil, be, flt)
                 ELSE Merged(done, svcs1, merge_mp(ex.mp[1], done.svc.mp[1]))
             Slave(done) == Exported(done, [svcs EXCEPT ![i] = done.svc])
         IN  Slave(service_export(
                       svcs[i], fs, smil, be[Endpoint(svcs[i])],
                       IF svcs[1].mp = None THEN [kind |-> "tree", mp |-> None]
                       ELSE [kind |-> "id"],
                       flt))

\* Export.export.  The tree of the Export object is the tree of the main
\* exporter, so what is merged into the one shows in the other; main keeps
\* the tree of the main exporter as its export has left it.
Export_export(svcs, fs, smil, be, mediap, flt) ==
    IF svcs = <<>>
    THEN [exc |-> NoException, where |-> "", services |-> svcs,
          exp |-> [mp |-> None, paths |-> EmptyDict], main |-> None]
    ELSE LET Slaves(main, done) ==
                 [exc |-> done.exc, where |-> done.where,
                  services |-> IF main.svc.mp = None THEN done.services
                               ELSE [done.services EXCEPT ![1].mp = done.exp.mp],
                  exp |-> done.exp, main |-> main.svc.mp]
             Exported(main, svcs1) ==
                 IF main.exc # NoException
                 THEN [exc |-> main.exc, where |-> "export", services |-> svcs1,
                       exp |-> [mp |-> None, paths |-> EmptyDict], main |-> None]
                 ELSE Slaves(main,
                             slaves_loop(svcs1,
                                         [mp |-> main.svc.mp,
                                          paths |-> main.svc.paths],
                                         2, fs, smil, be, flt))
             Main(main) == Exported(main, [svcs EXCEPT ![1] = main.svc])
         IN  Main(service_export(svcs[1], fs, smil, be[Endpoint(svcs[1])],
                                 mediap, flt))

\* --------------------------------------------------------------- the world
\* The source system holds one recording, mediapackage mp1.  Its published
\* elements have URLs server/static/engage-player/mp1/element/file, its
\* archived elements archive/archive/mediapackage/mp1/element/version/file.
PubUrl(el, name, ext) ==
    Url(TRUE, <<D("static"), D("engage-player"), D("mp1"), D(el), F(name, ext)>>)
ArchUrl(el, version, name, ext) ==
    Url(TRUE, <<D("archive"), D("archive"), D("mediapackage"), D("mp1"), D(el),
                D(version), F(name, ext)>>)
Element(id, type, tags, url) == [id |-> id, type |-> type, tags |-> tags, url |-> url]

\* published tracks: t3 has the URL of t1, t4 has no file, t9 was published
\* with its archive URL, s1 is a SMIL descriptor
PubT1 == Element("t1", "presenter/delivery", <<"engage", "high-quality">>,
                 PubUrl("t1", "track", ".mp4"))
PubT2 == Element("t2", "presentation/delivery", <<"low-quality", "engage">>,
                 PubUrl("t2", "track", ".mp4"))
PubT3 == Element("t3", "presenter/delivery", <<"medium-quality">>,
                 PubUrl("t1", "track", ".mp4"))
PubT4 == Element("t4", "presentation/delivery", <<>>, PubUrl("t4", "track", ".mp4"))
PubT9 == Element("t9", "presenter/delivery", <<"engage">>,
                 Url(TRUE, <<D("archive"), D("mediapackage"), D("mp1"), D("t9"),
                             D("0"), F("track", ".mp4")>>))
PubS1 == Element("s1", "presenter/delivery", <<"high-quality", "engage">>,
                 Url(TRUE, <<D("vod"), [tag |-> SMIL_TAG, stem |-> "mp1", ext |-> SMIL_EXT],
                             F("playlist", ".m3u8")>>))
\* s2 references the descriptor of s1 by the path of the file itself
PubS2 == Element("s2", "presenter/delivery", <<"engage">>,
                 Url(TRUE, <<D("vod"), F("mp1", SMIL_EXT)>>))
PubMedia == {PubT1, PubT2, PubT3, PubT4, PubT9, PubS1, PubS2}
PubCatalog == Element("c1", "dublincore/episode", <<>>, PubUrl("c1", "dublincore", ".xml"))
PubAttachment == Element("a1", "presenter/player+preview", <<"engage">>,
                         PubUrl("a1", "cover", ".jpg"))
Publication == Element("p1", "publication", <<>>,
                       Url(TRUE, <<D("engage"), F("player", ".html")>>))

\* archived tracks: t1b is another version of t1, t1c has the URL of t1, t5
\* has no file
ArchT1 == Element("t1", "presenter/source", <<"archive">>,
                  ArchUrl("t1", "0", "track", ".mp4"))
ArchT1b == Element("t1b", "presenter/work", <<"archive", "engage">>,
                   ArchUrl("t1", "1", "track", ".mp4"))
ArchT1c == Element("t1c", "presenter/source", <<"engage", "archive">>,
                   ArchUrl("t1", "0", "track", ".mp4"))
ArchT5 == Element("t5", "presentation/source", <<>>, ArchUrl("t5", "0", "track", ".mp4"))
ArchMedia == {ArchT1, ArchT1b, ArchT1c, ArchT5}
ArchCatalog == Element("c1", "dublincore/episode", <<"archive">>,
                       ArchUrl("c1", "0", "dublincore", ".xml"))
ArchAttachment == Element("a1", "security/xacml+episode", <<>>,
                          ArchUrl("a1", "0", "security", ".xml"))

\* the videos a SMIL descriptor may list: the second is the file of track t1
SmilVideo(el, name, bitrate) ==
    [src |-> Url(FALSE, <<[tag |-> "mp4", stem |-> "engage-player", ext |-> ""],
                          D("mp1"), D(el), F(name, ".mp4")>>),
     bitrate |-> bitrate]
Videos ==
    {SmilVideo("v1", "high", <<2, 0, 0, 0>>), SmilVideo("t1", "track", <<1, 0, 0, 0>>),
     SmilVideo("v3", "low", <<5, 0, 0>>)}

SmilPath == <<D("streaming"), F("mp1", SMIL_EXT)>>

\* the files of the source system
WorldFiles ==
    LET Published(root, el, name, ext) ==
            <<D(root), D("engage-player"), D("mp1"), D(el), F(name, ext)>>
        Archived(version, el, ext) ==
            <<D("archive"), D("mp1"), D(version), F(el, ext)>>
    IN  {Published("downloads", "t1", "track", ".mp4"),
         Published("streaming", "t1", "track", ".mp4"),
         Published("streaming", "t2", "track", ".mp4"),
         Published("downloads", "c1", "dublincore", ".xml"),
         Published("downloads", "a1", "cover", ".jpg"),
         Published("streaming", "v1", "high", ".mp4"),
         Published("streaming", "v3", "low", ".mp4"),
         SmilPath,
         Archived("0", "t1", ".mp4"), Archived("1", "t1", ".mp4"),
         Archived("0", "t9", ".mp4"), Archived("0", "c1", ".xml"),
         Archived("0", "a1", ".xml")}

\* the sequences without repetition of at most n elements of S
RECURSIVE Arrangements(_, _)
Arrangements(S, n) ==
    IF n = 0 THEN {<<>>}
    ELSE {<<>>} \cup {<<x>> \o rest : x \in S, rest \in Arrangements(S, n - 1)}

Injective(seq) == \A i, j \in 1..Len(seq) : seq[i] = seq[j] => i = j

Mediapackage(media, metadata, attachments, publications) ==
    [id |-> "mp1",
     present |-> IF publications = <<>> THEN Categories \ {"publications"}
                 ELSE Categories,
     elems |-> [c \in Categories |->
                   CASE c = "media" -> media
                     [] c = "metadata" -> metadata
                     [] c = "attachments" -> attachments
                     [] c = "publications" -> publications]]

PubMediapackages ==
    {Mediapackage(media, <<PubCatalog>>, <<PubAttachment>>, <<Publication>>) :
        media \in {m \in Arrangements(PubMedia, MaxMedia) : Injective(m)}}
ArchMediapackages ==
    {Mediapackage(media, <<ArchCatalog>>, <<ArchAttachment>>, <<>>) :
        media \in {m \in Arrangements(ArchMedia, MaxMedia) : Injective(m)}}
Descriptors == {d \in Arrangements(Videos, MaxVideos) : Injective(d)}

\* whether the tree references the SMIL descriptor
HasSmil(mp) ==
    \E i \in 1..Len(mp.elems["media"]) : mp.elems["media"][i] \in {PubS1, PubS2}

\* the exporters of migration_series.__migrate_series: the archive and the
\* search service; the search directories are kept in a set, whose iteration
\* order is not the configured one
ArchiveExporter == NewService("archive", <<>>, "archive")

\* config.search_dirs, by the names of the two distribution directories
search_dirs == <<"downloads", "streaming">>

\* the orders in which the set made of a list may be iterated
SetOrders(dirs) ==
    {o \in Arrangements({dirs[i] : i \in 1..Len(dirs)}, Len(dirs)) :
        /\ Injective(o)
        /\ {o[i] : i \in 1..Len(o)} = {dirs[i] : i \in 1..Len(dirs)}}
PublishExporters ==
    {NewService("publish", search, arch_dir) :
        search \in SetOrders(search_dirs),
        arch_dir \in {"archive"}}
\* a search service without the archive directory
PlainPublishExporter == NewService("publish", <<"streaming">>, "")

\* the filters of a run: each is absent or the configured set
Filters ==
    [filter_by_flavor : {{}, {"presentation/delivery", "presenter/work"}},
     filter_by_tag : {{}, {"low-quality"}},
     filter_tags : {{}, {"engage", "high-quality"}}]
NoFilters == [filter_by_flavor |-> {}, filter_by_tag |-> {}, filter_tags |-> {}]
SomeFilters ==
    [filter_by_flavor |-> {"presentation/delivery", "presenter/work"},
     filter_by_tag |-> {}, filter_tags |-> {"engage", "high-quality"}]

\* the mediapackages the endpoints hold in the runs of the coordinator
\* a tree without the element of a category: find(category) gives None
Without(mp, category) ==
    [mp EXCEPT !.present = @ \ {category}, !.elems[category] = <<>>]

CorePubMediapackages ==
    {Mediapackage(media, <<PubCatalog>>, <<PubAttachment>>, <<Publication>>) :
        media \in {m \in Arrangements({PubT1, PubT2}, MaxMedia) : Injective(m)}}
    \cup {Without(Mediapackage(<<PubT1>>, <<PubCatalog>>, <<PubAttachment>>,
                               <<Publication>>), category) :
             category \in {"media", "attachments"}}
    \cup {Mediapackage(<<PubT1, PubT4>>, <<PubCatalog>>, <<PubAttachment>>,
                       <<Publication>>)}
CoreArchMediapackages ==
    {Mediapackage(media, <<ArchCatalog>>, <<ArchAttachment>>, <<>>) :
        media \in {m \in Arrangements({ArchT1, ArchT1b}, MaxMedia) : Injective(m)}}
    \cup {Without(Mediapackage(<<ArchT1>>, <<ArchCatalog>>, <<ArchAttachment>>,
                               <<>>), category) :
             category \in {"media", "attachments"}}

\* no other script runs
NoScripts ==
    /\ sig = NoCall
    /\ oc = NoCall
    /\ pid = NoCall

\* the exporters alone: no series is migrated
NoSeriesRun ==
    /\ world = NoCall
    /\ disk = EmptyDict
    /\ run = NoCall
    /\ call = NoCall
    /\ NoScripts

\* ------------------------------------------------- the path resolver alone
\* the URLs the resolver is applied to: depth d, the extension of the file
\* name, and a stream tag on segment t (0: no tag)
PathUrl(d, ext, t, tag, netloc) ==
    Url(netloc,
        [i \in 1..d |->
            [tag |-> IF i = t THEN tag ELSE "",
             stem |-> IF i = d THEN "file" ELSE "d" \o ToString(d - i),
             ext |-> IF i = d THEN ext ELSE ""]])

PathUrls ==
    {PathUrl(d, ext, 0, "", netloc) :
        d \in 1..MaxDepth, ext \in {"", ".mp4", SMIL_EXT}, netloc \in BOOLEAN}
    \cup
    {PathUrl(x[1], ext, x[2], tag, netloc) :
        x \in {y \in (1..MaxDepth) \X (1..MaxDepth) : y[2] <= y[1]},
        ext \in {"", ".mp4", SMIL_EXT}, tag \in {"mp4", SMIL_TAG},
        netloc \in BOOLEAN}

\* the URLs of a Wowza playlist: the SMIL file is the directory of a virtual
\* file name, with or without the stream tag
PlaylistUrl(d, tagged, netloc) ==
    Url(netloc,
        [i \in 1..d |->
            [tag |-> IF i = d - 1 /\ tagged THEN SMIL_TAG ELSE "",
             stem |-> IF i = d THEN "playlist"
                      ELSE IF i = d - 1 THEN "mp1" ELSE "d" \o ToString(d - i),
             ext |-> IF i = d THEN ".m3u8" ELSE IF i = d - 1 THEN SMIL_EXT ELSE ""]])

PlaylistUrls ==
    {PlaylistUrl(d, tagged, netloc) :
        d \in 2..MaxDepth, tagged \in BOOLEAN, netloc \in BOOLEAN}

\* the file that ArchiveServiceExport._get_paths looks for, for a clean path
ArchiveCandidate(clean) ==
    LET n == Len(clean)
        Comp(k) == IF n >= k THEN <<clean[n - k + 1]>> ELSE <<>>
    IN  IF n = 0 THEN <<D("archive")>>
        ELSE <<D("archive")>> \o Comp(4) \o Comp(2)
             \o <<F(IF n >= 3 THEN SegText(clean[n - 2]) ELSE "", splitext(clean))>>

\* every file a URL of PathUrls or PlaylistUrls can resolve to
PathCandidates ==
    UNION {
        {join("downloads", get_clean_path(u)), join("streaming", get_clean_path(u)),
         ArchiveCandidate(get_clean_path(u))}
        : u \in PathUrls \cup PlaylistUrls}

\* a search service over a filesystem in which each storage root holds every
\* file or none, about to resolve one URL
PathInit ==
    /\ \E roots \in SUBSET {"downloads", "streaming", "archive"} :
          files = {p \in PathCandidates : p[1].stem \in roots}
    /\ smilFiles = EmptyDict
    /\ backend = EmptyDict
    /\ \E search \in SetOrders(search_dirs),
          arch_dir \in {"", "archive"} :
          services = <<NewService("publish", search, arch_dir)>>
    /\ exp = NewExport
    /\ filters = NoFilters
    /\ outcome = NoCall
    /\ \E url \in PathUrls \cup PlaylistUrls : res = [op |-> "call", url |-> url]
    /\ NoSeriesRun

\* the call services[1]._get_paths(url), and the call of export_element for an
\* element with this URL
GetPaths ==
    /\ res.op = "call"
    /\ res' = [op |-> "_get_paths", url |-> res.url,
               clean |-> get_clean_path(res.url),
               found |-> get_src_path(services[1].search, files,
                                      get_clean_path(res.url)),
               ret |-> get_paths(services[1], files, res.url),
               done |-> ServiceExport_export_element(
                            services[1], files,
                            Element("e1", "presenter/delivery", <<>>, res.url))]
    /\ UNCHANGED <<files, smilFiles, backend, services, exp, filters, outcome>>
    /\ UNCHANGED <<world, disk, run, call, scriptVars>>

PathNext == GetPaths

PathSpec == PathInit /\ [][PathNext]_vars

\* ------------------------------------------------------- one exporter alone
\* what an endpoint may return for the id: nothing, one mediapackage, or two
\* results (two mediapackages without media)
Found(mps) ==
    {<<>>} \cup {<<m>> : m \in mps}
    \cup {<<m, m>> : m \in {x \in mps : x.elems["media"] = <<>>}}

\* the content of the SMIL descriptor, which matters only to a tree that
\* references it
DescriptorsOf(found) ==
    IF found # <<>> /\ HasSmil(found[1]) THEN Descriptors ELSE {<<>>}

ServiceInit ==
    /\ files = WorldFiles
    /\ \E svc \in PublishExporters \cup {PlainPublishExporter, ArchiveExporter} :
          /\ services = <<svc>>
          /\ \E found \in Found(IF svc.kind = "publish" THEN PubMediapackages
                                ELSE ArchMediapackages) :
                /\ backend = [e \in {"search", "archive"} |->
                                 IF e = Endpoint(svc) THEN found ELSE <<>>]
                /\ \E d \in DescriptorsOf(found) :
                      smilFiles = [f \in {SmilPath} |-> d]
    /\ exp = NewExport
    /\ filters \in Filters
    /\ outcome = NoCall
    /\ res = NoCall
    /\ NoSeriesRun

\* services[1].export(mediap, filters) for an identifier or a tree: the one
\* export pass of a new exporter (the runs of the coordinator below export
\* again with used exporters)
ServiceExportCall(mediap) ==
    /\ outcome = NoCall
    /\ \E done \in {service_export(services[1], files, smilFiles,
                                    backend[Endpoint(services[1])], mediap, filters)} :
          /\ services' = <<done.svc>>
          /\ outcome' = [op |-> "export", mediap |-> mediap, exc |-> done.exc]
    /\ UNCHANGED <<files, smilFiles, backend, exp, filters, res>>
    /\ UNCHANGED <<world, disk, run, call, scriptVars>>

\* the trees a caller may pass: the mediapackages of the endpoint
Trees(found) == {<<found[i]>> : i \in 1..Len(found)}

ExportById == ServiceExportCall([kind |-> "id"])

ExportTree ==
    \E tree \in Trees(backend[Endpoint(services[1])]) :
        ServiceExportCall([kind |-> "tree", mp |-> tree])

ServiceNext == ExportById \/ ExportTree

ServiceSpec == ServiceInit /\ [][ServiceNext]_vars

\* --------------------------------------------------- the Export coordinator
\* the exporters registered in the Export object, the first being the main
\* one: Export.register refuses an exporter that is registered already
Registries ==
    {r \in Arrangements(PublishExporters \cup {ArchiveExporter}, MaxServices) :
        Injective(r)}

Init ==
    /\ files = WorldFiles
    /\ smilFiles = [f \in {SmilPath} |-> <<>>]
    /\ \E search \in Found(CorePubMediapackages),
          archive \in Found(CoreArchMediapackages) :
          backend = [e \in {"search", "archive"} |->
                        IF e = "search" THEN search ELSE archive]
    /\ services \in Registries
    /\ exp = NewExport
    /\ filters \in {NoFilters, SomeFilters}
    /\ outcome = NoCall
    /\ res = NoCall
    /\ NoSeriesRun

\* Export.export(mediap, filters) for an identifier or a tree; before is the
\* exception of the call before it
ExportCall(mediap) ==
    /\ \E done \in {Export_export(services, files, smilFiles, backend, mediap,
                                  filters)} :
          /\ services' = done.services
          /\ exp' = done.exp
          /\ outcome' = [op |-> "Export.export", mediap |-> mediap,
                         exc |-> done.exc, where |-> done.where,
                         main |-> done.main,
                         before |-> IF outcome = NoCall THEN "no call"
                                    ELSE outcome.exc]
    /\ UNCHANGED <<files, smilFiles, backend, filters, res>>
    /\ UNCHANGED <<world, disk, run, call, scriptVars>>

MergedExportById == ExportCall([kind |-> "id"])

MergedExportTree ==
    /\ services # <<>>
    /\ \E tree \in Trees(backend[Endpoint(services[1])]) :
          ExportCall([kind |-> "tree", mp |-> tree])

Next == MergedExportById \/ MergedExportTree

Spec == Init /\ [][Next]_vars

\* ------------------------------------------------------ the path resolver
\* the cases of C10: _get_paths has returned the paths of a URL that has no
\* stream tag, at least four segments and not the extension of a SMIL file
UntaggedDeepUrl ==
    /\ res.op = "_get_paths"
    /\ res.ret.exc = NoException
    /\ \A i \in 1..Len(res.url.segs) : res.url.segs[i].tag = ""
    /\ Len(res.url.segs) >= 4
    /\ splitext(res.url.segs) # SMIL_EXT

\* the source was found in one of the search directories
FromSearchDir ==
    Head(res.ret.src).stem \in {services[1].search[i] : i \in 1..Len(services[1].search)}

LastTwoSegments(segs) == SubSeq(segs, Len(segs) - 1, Len(segs))

\* C10 as stated: for a URL without stream tag, with at least four segments
\* and not the extension of a SMIL file, the destination computed by
\* PublishServiceExport._get_paths is the last two segments of the URL path,
\* wherever the source was found.
C10_LastTwoSegments ==
    UntaggedDeepUrl => res.ret.dst = LastTwoSegments(res.url.segs)

\* C10 amended: the destination is the last two segments of the URL path when
\* a search directory holds the source; when the archive directory does, it
\* is the third segment from the end followed by the file name.
C10_Destination ==
    UntaggedDeepUrl =>
        LET segs == res.url.segs
            n == Len(segs)
        IN  IF FromSearchDir THEN res.ret.dst = LastTwoSegments(segs)
            ELSE /\ Head(res.ret.src).stem = services[1].arch_dir
                 /\ res.ret.dst = <<segs[n - 2], segs[n]>>

\* the archive directory has supplied the source of such a URL
C10_ArchiveFallback ==
    /\ UntaggedDeepUrl
    /\ ~FromSearchDir
    /\ res.ret.dst # LastTwoSegments(res.url.segs)

\* the cases of C11: _get_paths has returned the paths of a URL whose clean
\* path has the extension of a SMIL file
SmilCleanPath ==
    /\ res.op = "_get_paths"
    /\ res.ret.exc = NoException
    /\ splitext(res.clean) = SMIL_EXT

SmilTagged == \E i \in 1..Len(res.url.segs) : res.url.segs[i].tag = SMIL_TAG

\* the segment of the URL path that names the SMIL file: the last one, or the
\* one before the virtual file name of a URL with the smil tag
DescriptorSegment ==
    LET real == IF SmilTagged THEN dirname(res.url.segs) ELSE res.url.segs
    IN  [real[Len(real)] EXCEPT !.tag = "", !.ext = SMIL_EXT]

\* C11: for a URL whose clean path has the extension of a SMIL file, with the
\* smil tag and a virtual file name or without, the destination is the clean
\* path unmodified, and the clean path is the SMIL file directly under the
\* root: nothing is reduced to two segments, no three segments above it are
\* kept.
C11_DescriptorUnmodified ==
    SmilCleanPath =>
        /\ res.ret.dst = res.clean
        /\ res.clean = <<DescriptorSegment>>

\* a URL with the smil tag and a virtual file name, several levels deep, has
\* been resolved
C11_TaggedPlaylist ==
    /\ SmilCleanPath
    /\ SmilTagged
    /\ Len(res.url.segs) >= 4
    /\ splitext(res.url.segs) = ".m3u8"
    /\ res.ret.dst = <<F("mp1", SMIL_EXT)>>

\* the cases of C12: the clean path of a URL path prefix/tag:suffix has been
\* computed
TaggedUrl ==
    /\ res.op = "_get_paths"
    /\ \E i \in 1..Len(res.url.segs) :
          /\ res.url.segs[i].tag # ""
          /\ \A j \in 1..Len(res.url.segs) : j # i => res.url.segs[j].tag = ""

\* the tag of such a URL
UrlTag == res.url.segs[CHOOSE i \in 1..Len(res.url.segs) : res.url.segs[i].tag # ""].tag

\* prefix/suffix, or its directory when the tag is the one of a SMIL file
Untagged ==
    LET joined == [i \in 1..Len(res.url.segs) |-> [res.url.segs[i] EXCEPT !.tag = ""]]
    IN  IF UrlTag = SMIL_TAG THEN dirname(joined) ELSE joined

\* the text of each component of a path
Text(path) == [i \in 1..Len(path) |-> SegText(path[i])]

\* prefix/suffix with the extension the claim gives it
WithTagExtension ==
    IF splitext(Untagged) # "" THEN Text(Untagged)
    ELSE IF Untagged = <<>> THEN <<"." \o UrlTag>>
    ELSE [Text(Untagged) EXCEPT ![Len(Untagged)] = @ \o "." \o UrlTag]

IsSuffix(s, t) == Len(s) <= Len(t) /\ s = SubSeq(t, Len(t) - Len(s) + 1, Len(t))

\* C12: for a URL path prefix/tag:suffix the clean path is made of the last
\* components of prefix/suffix (of its directory for the smil tag) without the
\* tag; a path without extension has got the extension .tag, an extension
\* that differs from .tag is kept, and no component of the result holds a
\* "tag:" specifier.  _get_clean_path has no raise statement.
C12_CleanPath ==
    TaggedUrl =>
        /\ res.clean # <<>>
        /\ IsSuffix(Text(res.clean), WithTagExtension)
        /\ \A i \in 1..Len(res.clean) : res.clean[i].tag = ""

\* the tag mp4 has been appended to a path without extension, several levels
\* deep
C12_TagAppended ==
    /\ TaggedUrl
    /\ UrlTag = "mp4"
    /\ Len(res.url.segs) >= 4
    /\ splitext(res.url.segs) = ""
    /\ splitext(res.clean) = ".mp4"

\* the configured search directories that hold the clean path, by their
\* positions in config.search_dirs
Holding ==
    {i \in 1..Len(search_dirs) : isfile(files, join(search_dirs[i], res.clean))}

\* C13 as stated: __get_src_path returns the file under the first directory
\* of the configured search_dirs that holds the relative path, and raises
\* MissingElementException when none holds it.
C13_ConfiguredOrder ==
    res.op = "_get_paths" =>
        IF Holding = {} THEN res.found.exc = MissingElementException
        ELSE /\ res.found.exc = NoException
             /\ res.found.src =
                    join(search_dirs[CHOOSE i \in Holding : \A j \in Holding : i <= j],
                         res.clean)

\* the cases of C14: no search directory holds the clean path
NoSearchDirHolds == res.op = "_get_paths" /\ res.found.exc = MissingElementException

\* the file of the archive under the archive's naming convention exists
ArchiveHolds ==
    /\ services[1].arch_dir # ""
    /\ isfile(files, ArchiveCandidate(res.clean))

\* element-id/filename.ext of a clean path mp-id/element-id/version/filename.ext
ArchiveDestination ==
    LET n == Len(res.clean)
    IN  (IF n >= 3 THEN <<res.clean[n - 2]>> ELSE <<>>)
        \o (IF n >= 1 THEN <<res.clean[n]>> ELSE <<>>)

\* C14: when no search directory holds the clean path, _get_paths returns
\* archive_dir/mediapackage-id/version/element-id.ext as the source and
\* element-id/filename.ext as the destination if an archive directory is
\* configured and holds that file; otherwise MissingElementException is
\* raised, and export_element leaves the path map as it was.
C14_ArchiveOrMissing ==
    NoSearchDirHolds =>
        IF ArchiveHolds
        THEN /\ res.ret.exc = NoException
             /\ res.ret.src = ArchiveCandidate(res.clean)
             /\ res.ret.dst = ArchiveDestination
        ELSE /\ res.ret.exc = MissingElementException
             /\ res.done.exc = MissingElementException
             /\ res.done.svc.paths = services[1].paths

\* the archive has supplied a file that no search directory holds, for a
\* clean path of four components, and export_element has registered it
C14_ArchiveSupplies ==
    /\ NoSearchDirHolds
    /\ ArchiveHolds
    /\ Len(res.clean) = 4
    /\ res.done.exc = NoException
    /\ res.done.svc.paths[ArchiveDestination] = ArchiveCandidate(res.clean)

\* ------------------------------------------------------------ the coordinator
\* the exporter with the smallest position whose path map has the key
FirstProducer(dst) ==
    CHOOSE i \in 1..Len(services) :
        /\ dst \in DOMAIN services[i].paths
        /\ \A j \in 1..(i - 1) : dst \notin DOMAIN services[j].paths

Produced == UNION {DOMAIN services[i].paths : i \in 1..Len(services)}

\* C1: when the main exporter finds no mediapackage for the id (no result, or
\* several), Export.export returns normally with no mediapackage and an empty
\* path map, whatever the other exporters hold.
C1_PrimaryDecides ==
    (/\ outcome.op = "Export.export"
     /\ outcome.mediap.kind = "id"
     /\ services # <<>>
     /\ Len(backend[Endpoint(services[1])]) # 1)
    => /\ outcome.exc = NoException
       /\ exp.mp = None
       /\ exp.paths = EmptyDict

\* C2: after Export.export, a key that several exporters produced maps to the
\* source of the first of them in the order of registration, a key that one
\* exporter produced maps to its source, and no exception comes from the merge
\* of the path maps: the call fails in the export of an exporter or in
\* _merge_mp only.
C2_FirstProducerWins ==
    outcome.op = "Export.export" =>
        /\ outcome.exc # NoException => outcome.where \in {"export", "_merge_mp"}
        /\ outcome.exc = NoException =>
              /\ DOMAIN exp.paths = Produced
              /\ \A dst \in Produced :
                    exp.paths[dst] = services[FirstProducer(dst)].paths[dst]

\* Export.export has merged exporters that give one key different sources
C2_Conflict ==
    /\ outcome.op = "Export.export"
    /\ outcome.exc = NoException
    /\ \E i, j \in 1..Len(services) :
          /\ i < j
          /\ \E dst \in DOMAIN services[i].paths \cap DOMAIN services[j].paths :
                services[i].paths[dst] # services[j].paths[dst]

\* ------------------------------------------------------- the merged tree
\* Export.export has got a tree from the main exporter and from another one,
\* and no export of an exporter has failed
MergedSome ==
    /\ outcome.op = "Export.export"
    /\ outcome.where # "export"
    /\ outcome.main # None
    /\ \/ outcome.where = "_merge_mp"
       \/ \E i \in 2..Len(services) : services[i].mp # None

\* the elements of a category in the trees of the exporters from i on, in the
\* order of registration
RECURSIVE OfSlaves(_, _)
OfSlaves(category, i) ==
    IF i > Len(services) THEN <<>>
    ELSE (IF services[i].mp = None THEN <<>>
          ELSE services[i].mp[1].elems[category])
         \o OfSlaves(category, i + 1)

\* C16: after Export.export in which the main exporter and others have given
\* trees, media and attachments of the merged tree are the elements of the
\* main exporter followed by those of the others in the order of
\* registration, the metadata are those of the main exporter, and the merge
\* raises nothing, also when a tree lacks one of the two categories.
C16_MergedCategories ==
    MergedSome =>
        /\ outcome.exc = NoException
        /\ \A k \in 1..Len(MERGE_CATEGORIES) :
              exp.mp[1].elems[MERGE_CATEGORIES[k]] =
                  outcome.main[1].elems[MERGE_CATEGORIES[k]]
                  \o OfSlaves(MERGE_CATEGORIES[k], 2)
        /\ exp.mp[1].elems["metadata"] = outcome.main[1].elems["metadata"]

\* the same for trees that have both categories
C16_CompleteTrees ==
    (/\ MergedSome
     /\ MERGE_CATEGORIES[1] \in outcome.main[1].present
     /\ MERGE_CATEGORIES[2] \in outcome.main[1].present
     /\ \A i \in 2..Len(services) :
           (outcome.exc = NoException /\ services[i].mp # None) =>
               /\ MERGE_CATEGORIES[1] \in services[i].mp[1].present
               /\ MERGE_CATEGORIES[2] \in services[i].mp[1].present
     /\ outcome.exc = NoException)
    => /\ \A k \in 1..Len(MERGE_CATEGORIES) :
             exp.mp[1].elems[MERGE_CATEGORIES[k]] =
                 outcome.main[1].elems[MERGE_CATEGORIES[k]]
                 \o OfSlaves(MERGE_CATEGORIES[k], 2)
       /\ exp.mp[1].elems["metadata"] = outcome.main[1].elems["metadata"]

\* ---------------------------------------------------------- one export pass
\* the log of the exporter, and the path map before entry k of the log: the
\* map that the last call of export_element before it has left
Log == services[1].log

PathsBefore(k) ==
    LET prev == {j \in 1..(k - 1) : Log[j].ev = "export_element"}
    IN  IF prev = {} THEN EmptyDict
        ELSE Log[CHOOSE j \in prev : \A i \in prev : i <= j].after

ElementCalls == {k \in DOMAIN Log : Log[k].ev = "export_element"}

\* the calls of export_element for a destination that is in the path map
KnownDestination(k) == Log[k].dst \in DOMAIN PathsBefore(k)

\* C3 as stated: export_element raises DuplicateElementException for a
\* destination of the path map only if the source of the element differs from
\* the registered one; with the same source it raises nothing and leaves the
\* path map as it is.
C3_DuplicateOnlyForOtherSource ==
    \A k \in ElementCalls :
        KnownDestination(k) =>
            IF Log[k].src # PathsBefore(k)[Log[k].dst]
            THEN Log[k].exc = DuplicateElementException
            ELSE Log[k].exc = NoException /\ Log[k].after = PathsBefore(k)

\* C3 amended: export_element raises DuplicateElementException exactly when
\* the destination of the element is in the path map, whether the source is
\* the registered one or another, and then leaves the path map as it is;
\* otherwise it adds the destination with the source of the element.
C3_DuplicateForKnownDestination ==
    \A k \in ElementCalls :
        IF KnownDestination(k)
        THEN Log[k].exc = DuplicateElementException /\ Log[k].after = PathsBefore(k)
        ELSE /\ Log[k].exc = NoException
             /\ Log[k].after = Put(PathsBefore(k), Log[k].dst, Log[k].src)

\* export_element was called for a destination registered with the same source
C3_SameSourceAgain ==
    \E k \in ElementCalls :
        /\ KnownDestination(k)
        /\ Log[k].src = PathsBefore(k)[Log[k].dst]
        /\ Log[k].exc = DuplicateElementException

\* export was called with an identifier; Found is what the endpoint returns
ExportedById == outcome.op = "export" /\ outcome.mediap.kind = "id"

Matches == Len(backend[Endpoint(services[1])])

\* the pass went on to its elements
Proceeded == services[1].mp # None \/ \E k \in DOMAIN Log : Log[k].ev # "_get_unique_mp"

\* C4 as stated: export with an identifier fails with NotFoundException when
\* the endpoint returns no mediapackage and with TooManyResultsException when
\* it returns several; only one match goes on to the elements.
C4_LookupFails ==
    ExportedById =>
        /\ Matches = 0 => outcome.exc = NotFoundException
        /\ Matches > 1 => outcome.exc = TooManyResultsException
        /\ Proceeded => Matches = 1

\* C4 amended: _get_unique_mp raises NotFoundException for no match and
\* TooManyResultsException for several; export catches either, resets the
\* exporter and returns normally with no mediapackage and an empty path map;
\* only one match goes on to the elements.
C4_LookupCaught ==
    ExportedById =>
        /\ Log # <<>> /\ Log[1].ev = "_get_unique_mp"
        /\ Log[1].exc = (IF Matches = 0 THEN NotFoundException
                         ELSE IF Matches > 1 THEN TooManyResultsException
                         ELSE NoException)
        /\ Matches # 1 =>
              /\ outcome.exc = NoException
              /\ services[1].mp = None
              /\ services[1].paths = EmptyDict
        /\ Proceeded <=> Matches = 1

\* export was called with an identifier that has several matches
C4_SeveralMatches ==
    /\ ExportedById
    /\ Matches > 1
    /\ Log[1].exc = TooManyResultsException
    /\ outcome.exc = NoException

\* the tree given to the pass
Input ==
    IF outcome.mediap.kind = "id" THEN backend[Endpoint(services[1])][1]
    ELSE outcome.mediap.mp[1]

Completed ==
    outcome.op = "export" /\ outcome.exc = NoException /\ services[1].mp # None

Range(seq) == {seq[i] : i \in DOMAIN seq}

\* the tree that ServiceExport.export leaves: PublishServiceExport.export
\* adds the tracks made from SMIL files to the media category afterwards
BaseTree ==
    LET mp == services[1].mp[1]
        made == Len(services[1].elements_from_smil)
    IN  [mp EXCEPT !.elems["media"] = SubSeq(@, 1, Len(@) - made)]

Original(id) == CHOOSE w \in Range(Work(Input)) : w.el.id = id

\* the elements that a filter drops
DroppedByFilter ==
    {w.el.id : w \in {x \in Range(Work(remove_publications(Input))) :
        \/ x.el.type \in filters.filter_by_flavor
        \/ Range(x.el.tags) \cap filters.filter_by_tag # {}}}

\* C5: after ServiceExport.export completes, the tree has no publications, no
\* element with a flavor of filter_by_flavor, no element with a tag of
\* filter_by_tag and no tag of filter_tags; the other tags of its elements are
\* kept; no element that a filter dropped has an entry in the path map.
C5_Filters ==
    Completed =>
        /\ "publications" \notin BaseTree.present
        /\ BaseTree.elems["publications"] = <<>>
        /\ \A w \in Range(Work(BaseTree)) :
              /\ w.el.type \notin filters.filter_by_flavor
              /\ Range(w.el.tags) \cap filters.filter_by_tag = {}
              /\ Range(w.el.tags) \cap filters.filter_tags = {}
              /\ LET Kept(t) == t \notin filters.filter_tags
                 IN  w.el.tags = SelectSeq(Original(w.el.id).el.tags, Kept)
        /\ \A k \in ElementCalls : Log[k].id \notin DroppedByFilter
        /\ \A dst \in DOMAIN services[1].exported :
              services[1].exported[dst] \notin DroppedByFilter

\* a pass with the three filters has dropped an element and has taken a tag
\* from an element that it kept
C5_AllFilters ==
    /\ Completed
    /\ filters.filter_by_flavor # {}
    /\ filters.filter_by_tag # {}
    /\ filters.filter_tags # {}
    /\ DroppedByFilter # {}
    /\ \E w \in Range(Work(BaseTree)) :
          Range(Original(w.el.id).el.tags) \cap filters.filter_tags # {}

\* ------------------------------------------------- the flattening of a SMIL
\* the calls of __export_from_smil in the log; for call k: the videos of the
\* file, the paths of a video, the path map at entry and at exit
SmilCalls == {k \in DOMAIN Log : Log[k].ev = "export_from_smil"}

VideosOf(k) == smilFiles[Log[k].smil_path]

PathsOf(video) == get_paths(services[1], files, video.src)

PathsAtEntry(k) == PathsBefore(Log[k].first)

PathsAtExit(k) == PathsBefore(k)

\* every video has a file, no two have one destination or one bitrate
Renditions(k) ==
    LET videos == VideosOf(k)
    IN  /\ \A i \in DOMAIN videos : PathsOf(videos[i]).exc = NoException
        /\ \A i, j \in DOMAIN videos :
              i # j => /\ PathsOf(videos[i]).dst # PathsOf(videos[j]).dst
                       /\ int(videos[i].bitrate) # int(videos[j].bitrate)

\* no video has a destination of the path map
NoneExported(k) ==
    \A v \in Range(VideosOf(k)) : PathsOf(v).dst \notin DOMAIN PathsAtEntry(k)

\* the videos from the highest bitrate to the lowest
ByBitrate(videos) ==
    [i \in 1..Len(videos) |->
        CHOOSE v \in Range(videos) :
            Cardinality({w \in Range(videos) : int(w.bitrate) > int(v.bitrate)}) = i - 1]

Min(a, b) == IF a <= b THEN a ELSE b

Quality(tag) ==
    CASE tag = "high-quality" -> 3
      [] tag = "medium-quality" -> 2
      [] tag = "low-quality" -> 1

\* C7: the list of quality tags that an exporter takes from the tags of the
\* mediapackage goes from the highest quality to the lowest.
C7_HighestQualityFirst ==
    (ExportedById /\ Matches = 1 /\ services[1].kind = "publish") =>
        LET quality_tags == services[1].quality_tags
        IN  /\ Range(quality_tags) = {t \in AllTags(Input) : is_quality_tag(t)}
            /\ \A i, j \in DOMAIN quality_tags :
                  i < j => Quality(quality_tags[i]) > Quality(quality_tags[j])

\* one track for each video, with the tags of the SMIL element and no other
OneTrackEach(k) ==
    LET e == Log[k]
        videos == VideosOf(k)
    IN  /\ e.exc = NoException
        /\ Len(e.tracks) = Len(videos)
        /\ \A v \in Range(videos) :
              \E i \in DOMAIN e.tracks : e.tracks[i].url = Url(FALSE, PathsOf(v).dst)
        /\ \A i \in DOMAIN e.tracks : e.tracks[i].tags = e.model_tags

\* C8 as stated: without quality tags, a file of N videos with distinct
\* destinations gives N tracks, one for each video, and none is given a
\* quality tag.
C8_OneTrackPerVideo ==
    \A k \in SmilCalls :
        (Log[k].quality_tags = <<>> /\ Renditions(k)) => OneTrackEach(k)

\* C8 amended: without quality tags, a file of N videos with distinct
\* destinations, none of them in the path map already, gives N tracks, one
\* for each video, and none is given a quality tag.
C8_OneTrackPerNewVideo ==
    \A k \in SmilCalls :
        (Log[k].quality_tags = <<>> /\ Renditions(k) /\ NoneExported(k)) =>
            OneTrackEach(k)

\* a file of several new videos was flattened without quality tags
C8_NoQualityTags ==
    \E k \in SmilCalls :
        /\ Log[k].quality_tags = <<>> /\ Renditions(k) /\ NoneExported(k)
        /\ Len(VideosOf(k)) >= 2
        /\ Len(Log[k].tracks) = Len(VideosOf(k))

\* the videos of call k whose destination is not in the path map, from the
\* highest bitrate to the lowest
NewVideos(k) ==
    LET New(v) == PathsOf(v).dst \notin DOMAIN PathsAtEntry(k)
    IN  SelectSeq(ByBitrate(VideosOf(k)), New)

\* C9: a video whose destination is in the path map is passed over and
\* nothing is raised: it gets no track, the entries of the path map stay, the
\* other videos are processed and get the quality tags in order, as if the
\* video were not in the file.
C9_DuplicateVideoSkipped ==
    \A k \in SmilCalls :
        LET e == Log[k]
            new == NewVideos(k)
            tracks == IF e.quality_tags = <<>> THEN Len(new)
                      ELSE Min(Len(new), Len(e.quality_tags))
        IN  Renditions(k) =>
                /\ e.exc = NoException
                /\ Len(e.tracks) = tracks
                /\ \A j \in 1..tracks :
                      /\ e.tracks[j].url = Url(FALSE, PathsOf(new[j]).dst)
                      /\ e.tracks[j].tags =
                            IF e.quality_tags = <<>> THEN e.model_tags
                            ELSE Append(e.model_tags, e.quality_tags[j])
                /\ \A dst \in DOMAIN PathsAtEntry(k) :
                      /\ dst \in DOMAIN PathsAtExit(k)
                      /\ PathsAtExit(k)[dst] = PathsAtEntry(k)[dst]

\* a video was passed over and a video of a lower bitrate got the quality tag
\* that comes next
C9_TagAfterDuplicate ==
    \E k \in SmilCalls :
        LET e == Log[k]
            sorted == ByBitrate(VideosOf(k))
        IN  /\ Renditions(k)
            /\ Len(e.quality_tags) >= 2
            /\ \E i \in DOMAIN sorted :
                  /\ i >= 2
                  /\ PathsOf(sorted[i]).dst \in DOMAIN PathsAtEntry(k)
                  /\ i < Len(sorted)
                  /\ Len(e.tracks) >= i
                  /\ e.tracks[i].url = Url(FALSE, PathsOf(sorted[i + 1]).dst)
                  /\ e.tracks[i].tags = Append(e.model_tags, e.quality_tags[i])

\* ----------------------------------------------- the SMIL elements of a tree
\* the calls of export_element for an element whose destination is a SMIL file
SmilElementCalls == {k \in ElementCalls : splitext(Log[k].dst) = SMIL_EXT}

\* the calls of __export_from_smil for the file at path
Flattenings(path) == {k \in SmilCalls : Log[k].smil_path = path}

\* C15: after PublishServiceExport.export completes, no element of the tree
\* has a URL with the extension of a SMIL file; a SMIL file that elements of
\* the pass reference has been flattened exactly once, however many reference
\* it; every track made from a SMIL file is in the media category and its URL
\* is a key of the path map.
C15_SmilFlattenedOnce ==
    (Completed /\ services[1].kind = "publish") =>
        /\ \A w \in Range(Work(services[1].mp[1])) :
              splitext(w.el.url.segs) # SMIL_EXT
        /\ \A k \in SmilElementCalls :
              Cardinality(Flattenings(Log[k].src)) = 1
        /\ \A k \in SmilCalls : \E j \in SmilElementCalls : Log[j].src = Log[k].smil_path
        /\ \A track \in Range(services[1].elements_from_smil) :
              /\ track \in Range(services[1].mp[1].elems["media"])
              /\ ~track.url.netloc
              /\ track.url.segs \in DOMAIN services[1].paths

\* two elements of a tree have referenced one SMIL file, which has given
\* tracks
C15_TwoReferences ==
    /\ Completed
    /\ Cardinality(SmilElementCalls) = 2
    /\ services[1].elements_from_smil # <<>>

\* ======================================================= migration_series
\* The destination directory of a series holds one directory per mediapackage
\* and the markers of the series.  disk maps <<dir, name>> to a regular file
\* [content, mtime]; dir is the identifier of the mediapackage, SeriesDir for
\* the directory of the series itself, or config.inbox.
IngestedException == "IngestedException"
AlreadyFailedException == "AlreadyFailedException"
HTTPError == "HTTPError"
IOError == "IOError"
OSError == "OSError"
AssertionError == "AssertionError"
CalledProcessError == "CalledProcessError"

\* most mediapackages in the series
MaxEpisodes == 2
\* the mediapackages in one answer of get_mediapackages_from_series
PageSize == 1

\* config.ingested_filename, failed_filename, manifest_filename
ingested_filename == ".ingested"
failed_filename == ".failed"
manifest_filename == "manifest.xml"
SeriesDir == ""
Inbox == "inbox"

\* the length in bytes of the contents that occur
Size(content) == IF content = "yy" THEN 2 ELSE IF content = "" THEN 0 ELSE 1

File(content, mtime) == [content |-> content, mtime |-> mtime]

\* the time at which a run writes its files, later than any file it finds
Now == 3

\* the source files the path maps refer to
Sources ==
    [src \in {"downloads/track.mp4", "downloads/cover.jpg"} |->
        IF src = "downloads/track.mp4" THEN File("x", 1) ELSE File("yy", 2)]

\* os.path.isfile and os.path.exists for a file of the destination directory
on_disk(d, dir, name) == <<dir, name>> \in DOMAIN d

\* a faulty comparison, which looks at size and time only
filecmp_cmp_by_stat(f1, f2) ==
    Size(f1.content) = Size(f2.content) /\ f1.mtime = f2.mtime

\* filecmp.cmp(f1, f2) with its default shallow=True: files with the same
\* size and modification time are taken as equal without being read; files
\* of different sizes are different; otherwise the contents are compared
filecmp_cmp(f1, f2) ==
    IF Size(f1.content) = Size(f2.content) /\ f1.mtime = f2.mtime THEN TRUE
    ELSE IF Size(f1.content) # Size(f2.content) THEN FALSE
    ELSE f1.content = f2.content

\* create_file_flag: an empty file is written at the path
create_file_flag(d, dir, name) == Put(d, <<dir, name>>, File("", Now))

\* shutil.copyfile(src, dst)
copyfile(d, src, dir, name) == Put(d, <<dir, name>>, File(Sources[src].content, Now))

\* what a step of migrate_mediapackage hands on: the exception raised, the
\* disk, and the trace of what the call has done so far
Step(exc, d, trace) == [exc |-> exc, disk |-> d, trace |-> trace]

\* the loop over exporter.paths.iteritems(), from the k-th key of the order of
\* iteration on: a destination that exists and compares equal is skipped,
\* any other is copied; fault "copy" makes shutil.copyfile raise
RECURSIVE copy_files(_, _, _, _, _, _, _)
copy_files(d, trace, mp_id, paths, order, k, fault) ==
    IF k > Len(order) THEN Step(NoException, d, trace)
    ELSE IF /\ on_disk(d, mp_id, order[k])
            /\ filecmp_cmp(Sources[paths[order[k]]], d[<<mp_id, order[k]>>])
    THEN copy_files(d, Append(trace, [ev |-> "skip", dst |-> order[k]]),
                    mp_id, paths, order, k + 1, fault)
    ELSE IF fault = "copy"
    THEN Step(IOError, d, Append(trace, [ev |-> "copyfile", dst |-> order[k]]))
    ELSE copy_files(copyfile(d, paths[order[k]], mp_id, order[k]),
                    Append(trace, [ev |-> "copyfile", dst |-> order[k]]),
                    mp_id, paths, order, k + 1, fault)

\* the end of the try block: the ZIP file is copied to the inbox and the
\* mediapackage is marked as ingested
deliver(done, mp_id, fault) ==
    IF done.exc # NoException THEN done
    ELSE IF fault = "inbox"
    THEN Step(OSError, done.disk, done.trace)
    ELSE Step(NoException,
              create_file_flag(Put(done.disk, <<Inbox, mp_id>>, File("z", Now)),
                               mp_id, ingested_filename),
              done.trace \o <<[ev |-> "inbox"],
                              [ev |-> "flag", name |-> ingested_filename]>>)

\* create_zip: fault "zip" makes the zip command fail
create_zip(done, mp_id, fault) ==
    IF done.exc # NoException THEN done
    ELSE IF fault = "zip"
    THEN Step(CalledProcessError, done.disk, Append(done.trace, [ev |-> "zip"]))
    ELSE Step(NoException, Put(done.disk, <<mp_id, "zip">>, File("z", Now)),
              Append(done.trace, [ev |-> "zip"]))

\* the manifest is opened for writing and the tree is serialized, which fails
\* for an exporter without mediapackage
write_manifest(done, mp_id, mediapackage) ==
    IF done.exc # NoException THEN done
    ELSE Step(IF mediapackage THEN NoException ELSE AssertionError,
              Put(done.disk, <<mp_id, manifest_filename>>,
                  File(IF mediapackage THEN "m" ELSE "", Now)),
              Append(done.trace, [ev |-> "manifest"]))

\* the try block of migrate_mediapackage.  export is what exporter.export
\* leaves for the identifier: [exc, mediapackage, paths, order], order being
\* the order in which the path map is iterated.
try_block(d, trace, mp_id, export, fault) ==
    IF export.exc # NoException
    THEN Step(export.exc, d, Append(trace, [ev |-> "export"]))
    ELSE deliver(
            create_zip(
               write_manifest(
                  copy_files(d, Append(trace, [ev |-> "export"]), mp_id,
                             export.paths, export.order, 1, fault),
                  mp_id, export.mediapackage),
               mp_id, fault),
            mp_id, fault)

\* except Exception: the mediapackage is marked as failed and the exception
\* is raised again
except_block(done, mp_id) ==
    IF done.exc = NoException THEN done
    ELSE Step(done.exc, create_file_flag(done.disk, mp_id, failed_filename),
              Append(done.trace, [ev |-> "flag", name |-> failed_filename]))

\* the finally block: with config.delete_ingested every file under the
\* directory of the mediapackage is removed.  The continue that should spare
\* the two markers continues the loop over the markers, so os.remove is
\* reached for every file.
finally_block(done, mp_id, delete_ingested) ==
    IF ~delete_ingested THEN done
    ELSE Step(done.exc,
              [key \in {k \in DOMAIN done.disk : k[1] # mp_id} |-> done.disk[key]],
              Append(done.trace, [ev |-> "remove"]))

\* migrate_mediapackage after the markers have been looked at: the
\* destination system is asked for the mediapackage; archived is what
\* get_unique_mp finds there
check_destination(d, mp_id, ep, w) ==
    CASE ep.archived = "one" ->
            Step(NoException, create_file_flag(d, mp_id, ingested_filename),
                 <<[ev |-> "get_unique_mp"],
                   [ev |-> "flag", name |-> ingested_filename]>>)
      [] ep.archived = "many" ->
            Step(TooManyResultsException, d, <<[ev |-> "get_unique_mp"]>>)
      [] ep.archived = "error" ->
            Step(HTTPError, d, <<[ev |-> "get_unique_mp"]>>)
      [] OTHER ->
            finally_block(
               except_block(
                  try_block(d, <<[ev |-> "get_unique_mp"]>>, mp_id, ep.export,
                            w.fault),
                  mp_id),
               mp_id, w.delete_ingested)

\* a faulty migrate_mediapackage, which does not look for the ingested marker
migrate_mediapackage_unmarked(d, mp_id, w) ==
    IF on_disk(d, mp_id, failed_filename)
    THEN Step(AlreadyFailedException, d, <<>>)
    ELSE check_destination(d, mp_id, w.ep[mp_id], w)

\* migrate_mediapackage(mp_xml, root_dir, exporter) for the mediapackage mp_id
\* of the world w
migrate_mediapackage(d, mp_id, w) ==
    IF on_disk(d, mp_id, ingested_filename)
    THEN Step(IngestedException, d, <<>>)
    ELSE IF on_disk(d, mp_id, failed_filename)
    THEN Step(AlreadyFailedException, d, <<>>)
    ELSE check_destination(d, mp_id, w.ep[mp_id], w)

\* exporter.get_mediapackages_from_series(series_id, offset): one page of the
\* listing of the source system
get_mediapackages_from_series(listing, offset) ==
    SubSeq(listing, offset + 1,
           IF offset + PageSize < Len(listing) THEN offset + PageSize
           ELSE Len(listing))

\* ------------------------------------------------------ the world of a run
\* what exporter.export leaves for a mediapackage
ExportOk(paths, order) ==
    [exc |-> NoException, mediapackage |-> TRUE, paths |-> paths, order |-> order]
ExportRaises(exc) ==
    [exc |-> exc, mediapackage |-> FALSE, paths |-> EmptyDict, order |-> <<>>]
\* an Export whose only exporter finds no mediapackage returns without one
ExportNothing ==
    [exc |-> NoException, mediapackage |-> FALSE, paths |-> EmptyDict,
     order |-> <<>>]

\* a mediapackage of the series: the marker in its directory, what the
\* destination system holds for it, the outcome of its export, and the files
\* an earlier run has left in its directory
Episode(marker, archived, export, dst) ==
    [marker |-> marker, archived |-> archived, export |-> export, dst |-> dst]

TrackDst == "t1/track.mp4"
CoverDst == "a1/cover.jpg"
TrackPaths == [dst \in {TrackDst} |-> "downloads/track.mp4"]
BothPaths ==
    [dst \in {TrackDst, CoverDst} |->
        IF dst = TrackDst THEN "downloads/track.mp4" ELSE "downloads/cover.jpg"]

\* the copies of the track an earlier run may have left: the same content
\* with the same or another time, another content of the same size with the
\* same or another time, a content of another size
LeftTracks ==
    {EmptyDict} \cup
    {[dst \in {TrackDst} |-> f] :
        f \in {File("x", 1), File("x", 2), File("z", 1), File("z", 2),
               File("yy", 1)}}
LeftCovers == {EmptyDict, [dst \in {CoverDst} |-> File("yy", 2)]}

\* the mediapackages that reach the copy step
CopiedEpisodes ==
    {Episode("", "none", ExportOk(EmptyDict, <<>>), EmptyDict)}
    \cup {Episode("", "none", ExportOk(TrackPaths, <<TrackDst>>), left) :
            left \in LeftTracks}
    \cup {Episode("", "none", ExportOk(BothPaths, order), update(track, cover)) :
            order \in SetOrders(<<TrackDst, CoverDst>>),
            track \in LeftTracks, cover \in LeftCovers}

\* the mediapackages that do not: marked, known to the destination system
\* (once, several times, or the request fails), or not exportable
OtherEpisodes ==
    {Episode(marker, "none", ExportOk(TrackPaths, <<TrackDst>>), EmptyDict) :
        marker \in {ingested_filename, failed_filename}}
    \cup {Episode("", archived, ExportOk(TrackPaths, <<TrackDst>>), EmptyDict) :
            archived \in {"one", "many", "error"}}
    \cup {Episode("", "none", export, EmptyDict) :
            export \in {ExportRaises(MissingElementException), ExportNothing}}

Episodes == CopiedEpisodes \cup OtherEpisodes

\* the mediapackages after the first of a series
LaterEpisodes ==
    {Episode("", "none", ExportOk(TrackPaths, <<TrackDst>>), EmptyDict),
     Episode(ingested_filename, "none", ExportOk(TrackPaths, <<TrackDst>>),
             EmptyDict),
     Episode("", "none", ExportRaises(MissingElementException), EmptyDict),
     Episode("", "error", ExportOk(TrackPaths, <<TrackDst>>), EmptyDict)}

\* the listing of a series of n mediapackages in the source system
Listing(n) == [i \in 1..n |-> <<"mp1", "mp2", "mp3", "mp4">>[i]]

\* the files an earlier run has left: the markers and what it has copied
Present(ep, marker) ==
    {key \in (DOMAIN ep) \X {ingested_filename, failed_filename, TrackDst,
                             CoverDst} :
        \/ key[2] = ep[key[1]].marker
        \/ key[2] \in DOMAIN ep[key[1]].dst}
    \cup (IF marker = "" THEN {} ELSE {<<SeriesDir, marker>>})

InitialDisk(ep, marker) ==
    [key \in Present(ep, marker) |->
        IF key[2] \in {ingested_filename, failed_filename} THEN File("", 1)
        ELSE ep[key[1]].dst[key[2]]]

\* the mediapackages of a listing: the first is one of firsts, the others
\* are few
EpisodesOf(listing, firsts) ==
    {ep \in [{listing[i] : i \in 1..Len(listing)} -> firsts \cup LaterEpisodes] :
        /\ \A i \in 1..Len(listing) : i = 1 => ep[listing[i]] \in firsts
        /\ \A i \in 2..Len(listing) : ep[listing[i]] \in LaterEpisodes}

\* the faults of the environment: shutil.copyfile, the zip command or the
\* inbox fails
Faults == {"none", "copy", "zip", "inbox"}

\* ------------------------------------------------------------ a series run
\* migrate_mediapackages(series_id, dst_dir, exporter, iterate) is about to
\* be called, in a world whose first mediapackage is one of firsts and whose
\* fault is one of faults
SeriesInit(firsts, faults) ==
    /\ files = {}
    /\ smilFiles = EmptyDict
    /\ backend = EmptyDict
    /\ services = <<>>
    /\ exp = NewExport
    /\ filters = NoFilters
    /\ outcome = NoCall
    /\ res = NoCall
    /\ \E n \in 0..MaxEpisodes, marker \in {"", ingested_filename, failed_filename} :
          \E ep \in EpisodesOf(Listing(n), firsts) :
             /\ \E fault \in faults, delete_ingested \in BOOLEAN, iterate \in BOOLEAN :
                   world = [ep |-> ep, listing |-> Listing(n), fault |-> fault,
                            delete_ingested |-> delete_ingested,
                            iterate |-> iterate]
             /\ disk = InitialDisk(ep, marker)
    /\ run = [pc |-> "call", mp_list |-> <<>>, k |-> 0, mp_processed |-> 0,
              failed |-> FALSE, exc |-> NoException, queries |-> 0,
              attempted |-> <<>>]
    /\ call = NoCall
    /\ NoScripts

MigrateInit == SeriesInit(Episodes, Faults)

Untouched == <<files, smilFiles, backend, services, exp, filters, outcome, res,
               scriptVars>>

\* the entry of migrate_mediapackages: a series that is marked raises, for
\* any other the first page of mediapackages is requested
Enter ==
    /\ run.pc = "call"
    /\ run' = IF on_disk(disk, SeriesDir, ingested_filename)
              THEN [run EXCEPT !.pc = "done", !.exc = IngestedException]
              ELSE IF on_disk(disk, SeriesDir, failed_filename)
              THEN [run EXCEPT !.pc = "done", !.exc = AlreadyFailedException]
              ELSE [run EXCEPT !.pc = "while", !.queries = 1,
                               !.mp_list = get_mediapackages_from_series(
                                              world.listing, 0)]
    /\ UNCHANGED <<world, disk, call, Untouched>>

\* while mp_list: an empty page ends the loop, and the series is marked as
\* failed or as ingested
WhileTest ==
    /\ run.pc = "while"
    /\ IF run.mp_list # <<>>
       THEN /\ run' = [run EXCEPT !.pc = "for", !.k = 1]
            /\ disk' = disk
       ELSE /\ run' = [run EXCEPT !.pc = "done"]
            /\ disk' = create_file_flag(disk, SeriesDir,
                                        IF run.failed THEN failed_filename
                                        ELSE ingested_filename)
    /\ UNCHANGED <<world, call, Untouched>>

\* a faulty loop, for which a mediapackage marked as failed is no failure
after_call_tolerant(r, exc, iterate) ==
    IF exc = NoException /\ ~iterate THEN [r EXCEPT !.pc = "done"]
    ELSE [r EXCEPT !.k = @ + 1,
                   !.failed = @ \/ exc \notin {NoException, IngestedException,
                                                AlreadyFailedException}]

\* how the loop goes on after migrate_mediapackage has ended with exc: the
\* function returns after a migration when it is not to iterate, an
\* IngestedException is logged, any other exception makes the series fail
after_call(r, exc, iterate) ==
    IF exc = NoException /\ ~iterate THEN [r EXCEPT !.pc = "done"]
    ELSE [r EXCEPT !.k = @ + 1,
                   !.failed = @ \/ exc \notin {NoException, IngestedException}]

\* one turn of the loop over the page: migrate_mediapackage for the k-th
\* mediapackage
ForStep ==
    /\ run.pc = "for"
    /\ run.k <= Len(run.mp_list)
    /\ \E done \in {migrate_mediapackage(disk, run.mp_list[run.k], world)} :
          /\ disk' = done.disk
          /\ call' = [op |-> "migrate_mediapackage", mp |-> run.mp_list[run.k],
                      exc |-> done.exc, trace |-> done.trace, before |-> disk]
          /\ run' = after_call(
                       [run EXCEPT !.attempted =
                           Append(@, [mp |-> run.mp_list[run.k], exc |-> done.exc])],
                       done.exc, world.iterate)
    /\ UNCHANGED <<world, Untouched>>

\* the end of the page: the next page is requested
NextBatch ==
    /\ run.pc = "for"
    /\ run.k > Len(run.mp_list)
    /\ run' = [run EXCEPT
                  !.pc = "while",
                  !.mp_processed = @ + Len(run.mp_list),
                  !.queries = @ + 1,
                  !.mp_list = get_mediapackages_from_series(
                                 world.listing,
                                 run.mp_processed + Len(run.mp_list))]
    /\ UNCHANGED <<world, disk, call, Untouched>>

MigrateNext == Enter \/ WhileTest \/ ForStep \/ NextBatch

MigrateSpec == MigrateInit /\ [][MigrateNext]_vars

\* the runs in which the copy step has nothing to decide; the script runs
\* on: a step that can be taken is taken
MigrateFairInit == SeriesInit(OtherEpisodes \cup LaterEpisodes, {"none", "inbox"})

MigrateFairSpec ==
    MigrateFairInit /\ [][MigrateNext]_vars /\ WF_vars(MigrateNext)

\* ------------------------------------------------- the claims of a series run
\* the loop is about to call migrate_mediapackage for a mediapackage that is
\* marked as ingested
AboutToSkip ==
    /\ run.pc = "for"
    /\ run.k <= Len(run.mp_list)
    /\ on_disk(disk, run.mp_list[run.k], ingested_filename)

\* C17: a call of migrate_mediapackage for a mediapackage whose ingested
\* marker exists raises IngestedException and has done nothing before: no
\* query, export, copy, ZIP file or marker; the loop goes on to the next
\* mediapackage without failing the series.  A call of migrate_mediapackages
\* for a series whose ingested marker exists raises IngestedException before
\* the listing is requested.
C17_IngestedSkipped ==
    [][/\ AboutToSkip =>
             /\ call'.exc = IngestedException
             /\ call'.mp = run.mp_list[run.k]
             /\ call'.trace = <<>>
             /\ disk' = disk
             /\ run' = [run EXCEPT
                           !.k = @ + 1,
                           !.attempted = Append(@, [mp |-> run.mp_list[run.k],
                                                    exc |-> IngestedException])]
       /\ (run.pc = "call" /\ on_disk(disk, SeriesDir, ingested_filename)) =>
             /\ run' = [run EXCEPT !.pc = "done", !.exc = IngestedException]
             /\ run'.queries = 0
             /\ disk' = disk
             /\ call' = call]_vars

\* the first mediapackage of the series was marked as ingested, and the loop
\* has gone on to migrate the second
C17_SkippedThenNext ==
    /\ call.op = "migrate_mediapackage"
    /\ call.mp = "mp2"
    /\ call.exc = NoException
    /\ world.ep["mp1"].marker = ingested_filename
    /\ on_disk(disk, "mp1", ingested_filename)
    /\ ~run.failed

\* the path map of the last call of migrate_mediapackage
CallPaths == world.ep[call.mp].export.paths

\* the events of a kind in the trace of the last call
Events(ev) == {i \in 1..Len(call.trace) : call.trace[i].ev = ev}

\* the last call has reached the copy step
CopyStep ==
    /\ call.op = "migrate_mediapackage"
    /\ Events("export") # {}
    /\ world.ep[call.mp].export.exc = NoException

\* the destination the earlier runs have left has the content of its source
SameContent(dst) ==
    /\ on_disk(call.before, call.mp, dst)
    /\ call.before[<<call.mp, dst>>].content = Sources[CallPaths[dst]].content

\* C18: when every destination of the path map exists with the content of its
\* source, the copy step writes no destination; the call completes and
\* creates the ingested marker as it does after copying, that is when the
\* exporter has a tree and the ZIP file and the inbox do not fail.
C18_NothingToCopy ==
    (CopyStep /\ \A dst \in DOMAIN CallPaths : SameContent(dst)) =>
        /\ Events("copyfile") = {}
        /\ \A dst \in DOMAIN CallPaths :
              on_disk(disk, call.mp, dst) =>
                  disk[<<call.mp, dst>>] = call.before[<<call.mp, dst>>]
        /\ (world.ep[call.mp].export.mediapackage
            /\ world.fault \notin {"zip", "inbox"}) =>
              /\ call.exc = NoException
              /\ \E i \in Events("flag") : call.trace[i].name = ingested_filename
              /\ ~world.delete_ingested => on_disk(disk, call.mp, ingested_filename)

\* both files of a mediapackage were there with the content of their
\* sources (one with another time), and the call has completed
C18_Rerun ==
    /\ CopyStep
    /\ DOMAIN CallPaths = {TrackDst, CoverDst}
    /\ \A dst \in DOMAIN CallPaths : SameContent(dst)
    /\ call.before[<<call.mp, TrackDst>>].mtime # Sources[CallPaths[TrackDst]].mtime
    /\ Cardinality(Events("skip")) = 2
    /\ call.exc = NoException
    /\ on_disk(disk, call.mp, ingested_filename)

\* C19: in the copy step a destination that exists is skipped only when its
\* content is that of the source; one whose content differs is copied again,
\* whatever the sizes and times of the two files.
C19_SkipOnlyEqual ==
    CopyStep =>
        /\ \A i \in Events("skip") : SameContent(call.trace[i].dst)
        /\ \A dst \in DOMAIN CallPaths :
              (/\ on_disk(call.before, call.mp, dst)
               /\ ~SameContent(dst)
               /\ call.exc = NoException
               /\ ~world.delete_ingested)
              => disk[<<call.mp, dst>>].content = Sources[CallPaths[dst]].content

\* the same when the files are told apart by size or time
C19_SkipOnlyEqualStat ==
    (/\ CopyStep
     /\ \A dst \in DOMAIN CallPaths :
           on_disk(call.before, call.mp, dst) =>
               \/ Size(call.before[<<call.mp, dst>>].content)
                     # Size(Sources[CallPaths[dst]].content)
               \/ call.before[<<call.mp, dst>>].mtime # Sources[CallPaths[dst]].mtime)
    => \A i \in Events("skip") : SameContent(call.trace[i].dst)

\* the last call of migrate_mediapackage has ended with an exception other
\* than IngestedException and AlreadyFailedException
Failure ==
    /\ call.op = "migrate_mediapackage"
    /\ call.exc \notin {NoException, IngestedException, AlreadyFailedException}

\* C20: a call of migrate_mediapackage that ends with an exception other than
\* IngestedException and AlreadyFailedException leaves the failed marker of
\* the mediapackage and no ingested marker.
C20_FailureMarked ==
    Failure =>
        /\ on_disk(disk, call.mp, failed_filename)
        /\ ~on_disk(disk, call.mp, ingested_filename)

\* the same for the exceptions of the try block when nothing is deleted
C20_TryBlockMarked ==
    (Failure /\ Events("export") # {} /\ ~world.delete_ingested) =>
        /\ on_disk(disk, call.mp, failed_filename)
        /\ ~on_disk(disk, call.mp, ingested_filename)

\* the last call of migrate_mediapackage has returned
Returned ==
    /\ call.op = "migrate_mediapackage"
    /\ call.exc = NoException

\* C25: after migrate_mediapackage has returned, the ingested marker of the
\* mediapackage exists, with config.delete_ingested as without it: the
\* cleanup spares the markers.
C25_MarkerKept ==
    Returned => on_disk(disk, call.mp, ingested_filename)

\* the same when nothing is deleted
C25_MarkerWithoutCleanup ==
    (Returned /\ ~world.delete_ingested) =>
        on_disk(disk, call.mp, ingested_filename)

\* --------------------------------------------------------- the whole series
\* migrate_mediapackages is called with iterate for a series without marker
SeriesStarts ==
    /\ run.pc = "call"
    /\ world.iterate
    /\ ~on_disk(disk, SeriesDir, ingested_filename)
    /\ ~on_disk(disk, SeriesDir, failed_filename)

\* a run with iterate has come to its end without raising
SeriesEnded ==
    /\ run.pc = "done"
    /\ world.iterate
    /\ run.exc = NoException

\* a call of the run has raised something other than IngestedException
SomeFailed ==
    \E i \in 1..Len(run.attempted) :
        run.attempted[i].exc \notin {NoException, IngestedException}

\* every mediapackage of the listing was attempted once, in its order, and the
\* series has the one marker that tells whether a mediapackage failed
SeriesMarked ==
    /\ [i \in 1..Len(run.attempted) |-> run.attempted[i].mp] = world.listing
    /\ on_disk(disk, SeriesDir, failed_filename) <=> SomeFailed
    /\ on_disk(disk, SeriesDir, ingested_filename) <=> ~SomeFailed

\* C26: a run of migrate_mediapackages with iterate over a stable listing
\* comes to its end, has then attempted every mediapackage of the series
\* exactly once and has created one marker of the series: failed if a
\* mediapackage raised anything but IngestedException, ingested otherwise;
\* the two markers of a series never exist together.
C26_SeriesTerminates ==
    /\ SeriesStarts ~> SeriesEnded
    /\ [](SeriesEnded => SeriesMarked)
    /\ [](~(/\ on_disk(disk, SeriesDir, ingested_filename)
            /\ on_disk(disk, SeriesDir, failed_filename)))

\* a series of two has ended as failed because its first mediapackage was
\* marked as failed by an earlier run
C26_FailedSeries ==
    /\ SeriesEnded
    /\ Len(run.attempted) = 2
    /\ run.attempted[1].exc = AlreadyFailedException
    /\ run.attempted[2].exc = NoException
    /\ on_disk(disk, SeriesDir, failed_filename)

\* ------------------------------------------------- exports one after another
\* the exporters of the Export object as their constructors leave them
AsConstructed ==
    [i \in 1..Len(services) |->
        NewService(services[i].kind, services[i].search, services[i].arch_dir)]

\* the tree and the path map of a result of Export.export, and its exception
Yield(done) == [exc |-> done.exc, exp |-> done.exp]

\* C21: an export that raises does not affect the exports after it: whatever
\* the calls before have left in the exporters, Export.export ends with the
\* exception, the tree and the path map that new exporters give for the same
\* mediapackage.
C21_NoCarryOver ==
    outcome.op = "Export.export" =>
        Yield(Export_export(AsConstructed, files, smilFiles, backend,
                            outcome.mediap, filters))
        = [exc |-> outcome.exc, exp |-> exp]

\* an export has given a tree and paths after an export that raised
C21_AfterFailure ==
    /\ outcome.op = "Export.export"
    /\ outcome.before \notin {"no call", NoException}
    /\ outcome.exc = NoException
    /\ exp.mp # None
    /\ DOMAIN exp.paths # {}

\* ======================================= migration_copy and migration_curl
\* most mediapackages in the results of a run, and most SIGINTs delivered
MaxResults == 3
MaxSignals == 2

\* the variables of the exporters and of the series run
exportVars == <<files, smilFiles, backend, services, exp, filters, outcome, res,
                world, disk, run, call>>

\* signal_handler(signal, frame): INTERRUPTED is assigned without a global
\* statement, so the name is local to the handler and the variable of the
\* module keeps its value
signal_handler(INTERRUPTED) == INTERRUPTED

\* the mediapackages of a run: one whose ZIP file exists (migration_copy) or
\* that is no directory or is ingested (migration_curl) is skipped
Results ==
    {r \in Arrangements({"skip", "process"}, MaxResults) : TRUE}

\* the module is loaded and main is about to enter its loop
SignalInit ==
    /\ files = {}
    /\ smilFiles = EmptyDict
    /\ backend = EmptyDict
    /\ services = <<>>
    /\ exp = NewExport
    /\ filters = NoFilters
    /\ outcome = NoCall
    /\ res = NoCall
    /\ world = NoCall
    /\ disk = EmptyDict
    /\ run = NoCall
    /\ call = NoCall
    /\ oc = NoCall
    /\ pid = NoCall
    /\ \E script \in {"migration_copy", "migration_curl"}, results \in Results :
          sig = [script |-> script, results |-> results, INTERRUPTED |-> FALSE,
                 pc |-> "for", k |-> 1, sigints |-> 0, starts |-> <<>>,
                 finished |-> <<>>]

\* the head of the loop: the flag is read, and main returns if it is set; a
\* mediapackage to skip is passed over, any other is started.  starts keeps
\* the number of SIGINTs delivered before each mediapackage is started.
LoopHead ==
    /\ sig.pc = "for"
    /\ sig' = IF sig.k > Len(sig.results) THEN [sig EXCEPT !.pc = "returned"]
              ELSE IF sig.INTERRUPTED THEN [sig EXCEPT !.pc = "returned"]
              ELSE IF sig.results[sig.k] = "skip" THEN [sig EXCEPT !.k = @ + 1]
              ELSE [sig EXCEPT !.pc = "mediapackage",
                               !.starts = Append(@, sig.sigints)]
    /\ UNCHANGED <<exportVars, oc, pid>>

\* the body of the loop for the mediapackage comes to its end
LoopBody ==
    /\ sig.pc = "mediapackage"
    /\ sig' = [sig EXCEPT !.pc = "for", !.k = @ + 1,
                          !.finished = Append(@, sig.k)]
    /\ UNCHANGED <<exportVars, oc, pid>>

\* SIGINT is delivered while the script runs, and the handler is run
SigInt ==
    /\ sig.pc # "returned"
    /\ sig.sigints < MaxSignals
    /\ sig' = [sig EXCEPT !.INTERRUPTED = signal_handler(@), !.sigints = @ + 1]
    /\ UNCHANGED <<exportVars, oc, pid>>

SignalNext == LoopHead \/ LoopBody \/ SigInt

SignalSpec == SignalInit /\ [][SignalNext]_vars

MaxWorkflows == 3
DEFAULT_PAGE_SIZE == 2
MAX_ATTEMPTS == 2
\* the listing is empty from this page on; the page offset moves between it
\* and the page after it from there on
MaxPage == 2

ConnectionError == "ConnectionError"
UnboundLocalError == "UnboundLocalError"

DISTRIBUTION_DIRS ==
    <<"downloads/mh_default_org/engage-player",
      "downloads/mh_default_org/internal",
      "streaming/mh_default_org/engage-player">>
DISTRIBUTION_FILES == <<"streaming/mh_default_org">>
SEARCH_DELETE_ENDPOINT == "search"
\* WF_DELETE_ENDPOINT of the script
WfDeleteEndpoint == "workflow/remove"
ARCH_DELETE_ENDPOINT == "archive/delete"
LEGACY_ARCH_DELETE_ENDPOINT == "episode/delete"

\* what a request gives: the status 200, another status, or no connection
Responses == {"200", "500", ConnectionError}
\* what a request for the job gives: its status, another HTTP status, or no
\* connection
JOB_FINAL_STATUSES == {"FINISHED", "FAILED"}
JobResponses == JOB_FINAL_STATUSES \cup {"RUNNING", "500", ConnectionError}

\* a distribution directory of a mediapackage, and a distribution file of it
DistDir(subdir, mp_id) == <<subdir, "", mp_id>>
DistFile(parent, mp_id) == <<parent, "engage-player_present", mp_id>>

\* the step of the script: exc is raised out of the action, or the action
\* after it is next
Leave(o, exc, next) ==
    IF exc # NoException THEN [o EXCEPT !.pc = "raised", !.exc = exc]
    ELSE [o EXCEPT !.pc = next]

\* unpublish(mp_id, server_url, auth, dry_run) with the response resp of the
\* search service: the job identifier, and the system after the request
unpublish(o, mp_id, dry_run, resp) ==
    IF dry_run THEN [job |-> -1, o |-> o]
    ELSE IF resp = ConnectionError THEN [job |-> -1, o |-> o]
    ELSE [job |-> IF resp = "200" THEN 1 ELSE -1,
          o |-> [o EXCEPT
                   !.deletes = @ \cup {<<SEARCH_DELETE_ENDPOINT, mp_id>>},
                   !.published = IF resp = "200" THEN @ \ {mp_id} ELSE @]]

\* the loop of wait_for_job over the attempts: job_status is bound by the
\* first response with status 200 only
RECURSIVE wait_loop(_, _, _)
wait_loop(resps, a, job_status) ==
    IF a > MAX_ATTEMPTS
    THEN IF job_status = <<>> THEN UnboundLocalError ELSE NoException
    ELSE IF resps[a] = ConnectionError THEN ConnectionError
    ELSE IF resps[a] = "500" THEN wait_loop(resps, a + 1, job_status)
    ELSE IF resps[a] \in JOB_FINAL_STATUSES THEN NoException
    ELSE wait_loop(resps, a + 1, <<resps[a]>>)

\* wait_for_job(job_id, server_url, auth, mp_id): the exception it raises
wait_for_job(job_id, resps) ==
    IF job_id < 0 THEN NoException ELSE wait_loop(resps, 1, <<>>)

\* the first loop of retract, over the directories from the d-th on
RECURSIVE retract_dirs(_, _, _, _)
retract_dirs(o, mp_id, dry_run, d) ==
    IF d > Len(DISTRIBUTION_DIRS) THEN [exc |-> NoException, o |-> o]
    ELSE LET fulldir == DistDir(DISTRIBUTION_DIRS[d], mp_id)
             kind == IF fulldir \in DOMAIN o.fs THEN o.fs[fulldir] ELSE "none"
         IN  IF dry_run \/ kind \in {"none", "file"}
             THEN retract_dirs(o, mp_id, dry_run, d + 1)
             ELSE IF kind = "denied" THEN [exc |-> OSError, o |-> o]
             ELSE retract_dirs(
                    [o EXCEPT !.removed = @ \cup {fulldir},
                              !.fs = [p \in DOMAIN @ \ {fulldir} |-> @[p]]],
                    mp_id, dry_run, d + 1)

\* the second loop of retract, over the files from the f-th parent on
RECURSIVE retract_files(_, _, _, _)
retract_files(o, mp_id, dry_run, f) ==
    IF f > Len(DISTRIBUTION_FILES) THEN [exc |-> NoException, o |-> o]
    ELSE LET fullpath == DistFile(DISTRIBUTION_FILES[f], mp_id)
             kind == IF fullpath \in DOMAIN o.fs THEN o.fs[fullpath] ELSE "none"
         IN  IF dry_run \/ kind \in {"none", "dir"}
             THEN retract_files(o, mp_id, dry_run, f + 1)
             ELSE IF kind = "denied" THEN [exc |-> OSError, o |-> o]
             ELSE retract_files(
                    [o EXCEPT !.removed = @ \cup {fullpath},
                              !.fs = [p \in DOMAIN @ \ {fullpath} |-> @[p]]],
                    mp_id, dry_run, f + 1)

\* retract regardless of dry_run
retract_really(o, mp_id, dry_run) ==
    LET dirs == retract_dirs(o, mp_id, FALSE, 1)
    IN  IF dirs.exc # NoException THEN dirs
        ELSE retract_files(dirs.o, mp_id, FALSE, 1)

\* retract(mp_id, mountpoint, dry_run)
retract(o, mp_id, dry_run) ==
    LET dirs == retract_dirs(o, mp_id, dry_run, 1)
    IN  IF dirs.exc # NoException THEN dirs
        ELSE retract_files(dirs.o, mp_id, dry_run, 1)

\* the workflows of the mediapackage in the order of the listing
RECURSIVE Ascending(_)
Ascending(S) ==
    IF S = {} THEN <<>>
    ELSE LET least == CHOOSE x \in S : \A y \in S : x <= y
         IN  <<least>> \o Ascending(S \ {least})

\* the page startPage of the listing with count workflows a page
Page(listing, startPage, count) ==
    SubSeq(listing, Min(startPage * count + 1, Len(listing) + 1),
           Min(startPage * count + count, Len(listing)))

\* the loop over the workflows of a page from the j-th on: a delete request
\* for each, answered by resps[j]
RECURSIVE delete_page(_, _, _, _, _)
delete_page(o, mp_id, workflows, resps, j) ==
    IF j > Len(workflows) THEN [exc |-> NoException, o |-> o]
    ELSE IF resps[j] = ConnectionError
    THEN [exc |-> ConnectionError, o |-> [o EXCEPT !.faulty = TRUE]]
    ELSE delete_page(
           [o EXCEPT !.deletes = @ \cup {<<WfDeleteEndpoint, workflows[j]>>},
                     !.faulty = @ \/ resps[j] # "200",
                     !.workflows[mp_id] =
                         IF resps[j] = "200" THEN @ \ {workflows[j]} ELSE @],
           mp_id, workflows, resps, j + 1)

\* query_params[QUERY_WF_PAGE_OFFSET] += 1, within the pages told apart
NextPage(startPage) == IF startPage > MaxPage THEN MaxPage ELSE startPage + 1

\* one pass of the while loop of delete_workflows, whose condition holds:
\* the page is requested (answer resp), each workflow of it is deleted unless
\* dry_run (answers resps), and the offset and the count move on.  returned
\* tells that the function returns out of the loop.
while_body(o, mp_id, dry_run, resp, resps) ==
    IF resp # "200"
    THEN [returned |-> TRUE, o |-> [o EXCEPT !.faulty = TRUE]]
    ELSE LET listing == Ascending(o.workflows[mp_id])
             workflows == Page(listing, o.wf.startPage, DEFAULT_PAGE_SIZE)
             n == IF o.wf.n_workflows < 0 THEN Len(listing)
                  ELSE o.wf.n_workflows
             page == IF dry_run THEN [exc |-> NoException, o |-> o]
                     ELSE delete_page(o, mp_id, workflows, resps, 1)
         IN  IF page.exc # NoException THEN [returned |-> TRUE, o |-> page.o]
             ELSE [returned |-> FALSE,
                   o |-> [page.o EXCEPT
                            !.wf = [i |-> o.wf.i + Len(workflows),
                                    n_workflows |-> n,
                                    startPage |->
                                        NextPage(o.wf.startPage)]]]

\* unarchive(mp_id, server_url, auth, dry_run, legacy) with the answers of
\* the archive to the listing and to the delete request
unarchive(o, mp_id, dry_run, legacy, resp, del) ==
    IF resp # "200" \/ dry_run \/ del = ConnectionError THEN o
    ELSE [o EXCEPT
            !.deletes = @ \cup {<<IF legacy THEN LEGACY_ARCH_DELETE_ENDPOINT
                                  ELSE ARCH_DELETE_ENDPOINT, mp_id>>},
            !.archived = IF del = "200" THEN @ \ {mp_id} ELSE @]

\* ---- the systems the script runs on
Mp1 == "mp1"
Mp2 == "mp2"
\* the lines of the file of identifiers ('#' begins a comment), or the one
\* identifier of the command line
IdLists == {<<Mp1>>, <<Mp1, Mp2>>, <<"#", Mp1>>}

\* every distribution directory and file of the mediapackage, of a kind
Distributed(mp_id, kindOf) ==
    [p \in {DistDir(DISTRIBUTION_DIRS[d], mp_id) : d \in 1..Len(DISTRIBUTION_DIRS)}
           \cup {DistFile(DISTRIBUTION_FILES[f], mp_id) :
                    f \in 1..Len(DISTRIBUTION_FILES)}
       |-> kindOf[p[2]]]

FileSystems ==
    {EmptyDict,
     Distributed(Mp1, [x \in {"", "engage-player_present"} |->
                          IF x = "" THEN "dir" ELSE "file"]),
     Distributed(Mp1, [x \in {"", "engage-player_present"} |->
                          IF x = "" THEN "denied" ELSE "file"]),
     Distributed(Mp1, [x \in {"", "engage-player_present"} |->
                          IF x = "" THEN "dir" ELSE "denied"])}

\* delete_mp is called
DeleteInit ==
    /\ files = {}
    /\ smilFiles = EmptyDict
    /\ backend = EmptyDict
    /\ services = <<>>
    /\ exp = NewExport
    /\ filters = NoFilters
    /\ outcome = NoCall
    /\ res = NoCall
    /\ world = NoCall
    /\ disk = EmptyDict
    /\ run = NoCall
    /\ call = NoCall
    /\ sig = NoCall
    /\ pid = NoCall
    /\ \E ids \in IdLists, dry_run \in BOOLEAN, legacy \in BOOLEAN,
          fs \in FileSystems, n \in 0..MaxWorkflows, there \in BOOLEAN :
          oc = [ids |-> ids, dry_run |-> dry_run, legacy |-> legacy,
                k |-> 1, pc |-> "unpublish", exc |-> NoException, job |-> -1,
                published |-> IF there THEN {Mp1} ELSE {},
                archived |-> IF there THEN {Mp1, Mp2} ELSE {},
                workflows |-> [m \in {Mp1, Mp2} |->
                                  IF m = Mp1 THEN 1..n ELSE {}],
                fs |-> fs,
                wf |-> [i |-> 0, n_workflows |-> -1, startPage |-> 0],
                deletes |-> {}, removed |-> {}, attempted |-> {},
                faulty |-> FALSE]

Others == <<files, smilFiles, backend, services, exp, filters, outcome, res,
            world, disk, run, call, sig, pid>>

\* the step of delete_mp is at the action of the k-th identifier
At(action) ==
    /\ oc.pc = action
    /\ oc.k <= Len(oc.ids)
    /\ oc.ids[oc.k] # "#"

Called(o, action) == [o EXCEPT !.attempted = @ \cup {<<o.k, action>>}]

\* the loop over the lines of the file: a comment is passed over, and
\* delete_mp returns after the last line
NextId ==
    /\ oc.pc = "unpublish"
    /\ \/ /\ oc.k <= Len(oc.ids)
          /\ oc.ids[oc.k] = "#"
          /\ oc' = [oc EXCEPT !.k = @ + 1]
       \/ /\ oc.k > Len(oc.ids)
          /\ oc' = [oc EXCEPT !.pc = "exit"]
    /\ UNCHANGED Others

Unpublish ==
    /\ At("unpublish")
    /\ \E resp \in Responses :
          \E u \in {unpublish(Called(oc, "unpublish"), oc.ids[oc.k],
                              oc.dry_run, resp)} :
             oc' = [u.o EXCEPT !.job = u.job, !.pc = "wait_for_job"]
    /\ UNCHANGED Others

WaitForJob ==
    /\ At("wait_for_job")
    /\ \E resps \in [1..MAX_ATTEMPTS -> JobResponses] :
          oc' = Leave(oc, wait_for_job(oc.job, resps), "retract")
    /\ UNCHANGED Others

Retract ==
    /\ At("retract")
    /\ \E r \in {retract(Called(oc, "retract"), oc.ids[oc.k], oc.dry_run)} :
          oc' = Leave([r.o EXCEPT !.wf = [i |-> 0, n_workflows |-> -1,
                                           startPage |-> 0]],
                      r.exc, "delete_workflows")
    /\ UNCHANGED Others

\* the test of the while loop of delete_workflows and one pass of the loop
DeleteWorkflows ==
    /\ At("delete_workflows")
    /\ IF oc.wf.n_workflows < 0 \/ oc.wf.i < oc.wf.n_workflows
       THEN \E resp \in Responses,
               resps \in [1..DEFAULT_PAGE_SIZE -> Responses] :
               \E w \in {while_body(Called(oc, "delete_workflows"),
                                    oc.ids[oc.k], oc.dry_run, resp, resps)} :
                  oc' = IF w.returned THEN [w.o EXCEPT !.pc = "unarchive"]
                        ELSE w.o
       ELSE oc' = [Called(oc, "delete_workflows") EXCEPT !.pc = "unarchive"]
    /\ UNCHANGED Others

Unarchive ==
    /\ At("unarchive")
    /\ \E resp \in Responses, del \in Responses :
          oc' = [unarchive(Called(oc, "unarchive"), oc.ids[oc.k], oc.dry_run,
                           oc.legacy, resp, del)
                   EXCEPT !.pc = "unpublish", !.k = @ + 1]
    /\ UNCHANGED Others

DeleteNext ==
    \/ NextId
    \/ Unpublish
    \/ WaitForJob
    \/ Retract
    \/ DeleteWorkflows
    \/ Unarchive

DeleteSpec == DeleteInit /\ [][DeleteNext]_vars

\* the script is scheduled as long as it has a step to take
DeleteFairSpec == DeleteSpec /\ WF_vars(DeleteNext)

\* the actions of delete_mp for a mediapackage
Actions == {"unpublish", "retract", "delete_workflows", "unarchive"}

\* delete_mp is over: it returned or an exception left it
Over == oc.pc \in {"exit", "raised"}

\* C23: with --not_really no DELETE request is sent and no file or directory
\* is removed, whatever the services answer.
C23_DryRunReadsOnly ==
    oc.dry_run => oc.deletes = {} /\ oc.removed = {}

\* a dry run is over for a mediapackage that is published, distributed and
\* archived and has workflows, each action of which was called
C23_DryRunDone ==
    /\ oc.dry_run
    /\ oc.pc = "exit"
    /\ oc.published # {} /\ oc.archived # {} /\ oc.workflows[Mp1] # {}
    /\ \E p \in DOMAIN oc.fs : oc.fs[p] = "dir"
    /\ \A a \in Actions : <<Len(oc.ids), a>> \in oc.attempted

\* C24: when delete_mp is over, each of the four actions was attempted for
\* every identifier, whatever failed before it.
C24_ActionsIndependent ==
    Over => \A k \in 1..Len(oc.ids) :
               oc.ids[k] # "#" => \A a \in Actions : <<k, a>> \in oc.attempted

\* C27: delete_workflows without dry run comes to its end, and when every
\* request of it succeeded no workflow of the mediapackage is left without a
\* delete request.
C27_WorkflowsDeleted ==
    /\ (oc.pc = "delete_workflows" /\ ~oc.dry_run) ~> (oc.pc # "delete_workflows")
    /\ [](oc.pc = "unarchive" /\ ~oc.dry_run /\ ~oc.faulty
            => oc.workflows[oc.ids[oc.k]] = {})

\* ============================================ migration_series: the pidfile
\* most instances of the script started
MaxInstances == 3

Instances == 1..MaxInstances

ValueError == "ValueError"

\* the file at config.pidfilename: none, or its inode and its content (no pid
\* or one pid)
NoFile == <<>>
PidFile(ino, content) == <<[ino |-> ino, content |-> content]>>

\* no instance is started yet; there is no pidfile, or one without a pid in
\* it is left over
PidInit ==
    /\ files = {}
    /\ smilFiles = EmptyDict
    /\ backend = EmptyDict
    /\ services = <<>>
    /\ exp = NewExport
    /\ filters = NoFilters
    /\ outcome = NoCall
    /\ res = NoCall
    /\ world = NoCall
    /\ disk = EmptyDict
    /\ run = NoCall
    /\ call = NoCall
    /\ sig = NoCall
    /\ oc = NoCall
    /\ \E left \in {0, 1} :
          pid = [pc |-> [p \in Instances |-> "idle"],
                 old_pid |-> [p \in Instances |-> <<>>],
                 fd |-> [p \in Instances |-> 0],
                 file |-> IF left = 0 THEN NoFile ELSE PidFile(left, <<>>),
                 inodes |-> left]

NotPid == <<files, smilFiles, backend, services, exp, filters, outcome, res,
            world, disk, run, call, sig, oc>>

\* the process of the instance exists
Alive(p) == pid.pc[p] \notin {"idle", "aborted", "exited"}

\* the instance is in __migrate_series
Running(p) == pid.pc[p] = "migrate"

\* what pidfile.write followed by close leaves: the text goes to the file
\* that was opened, which is the file of the name only if it was not removed
\* since
written(file, fd, text) ==
    IF file # NoFile /\ file[1].ino = fd THEN PidFile(fd, text) ELSE file

\* os.kill(int(old_pid), 0): the exception it raises
kill(old_pid) ==
    IF old_pid = <<>> THEN ValueError
    ELSE IF Alive(old_pid[1]) THEN NoException
    ELSE OSError

\* the script is started: pidfile = open(config.pidfilename, 'r+')
Open(p) ==
    /\ pid.pc[p] = "idle"
    /\ pid' = IF pid.file = NoFile
              THEN [pid EXCEPT !.pc[p] = "create"]
              ELSE [pid EXCEPT !.pc[p] = "readline", !.fd[p] = pid.file[1].ino]
    /\ UNCHANGED NotPid

\* old_pid = pidfile.readline()
Readline(p) ==
    /\ pid.pc[p] = "readline"
    /\ pid' = [pid EXCEPT !.pc[p] = "kill",
                          !.old_pid[p] =
                              IF pid.file # NoFile /\ pid.file[1].ino = pid.fd[p]
                              THEN pid.file[1].content ELSE <<>>]
    /\ UNCHANGED NotPid

\* os.kill(int(old_pid), 0) and what follows it up to the truncation of the
\* file: the instance aborts if the process exists
Kill(p) ==
    /\ pid.pc[p] = "kill"
    /\ \E exc \in {kill(pid.old_pid[p])} :
          pid' = IF exc = NoException THEN [pid EXCEPT !.pc[p] = "aborted"]
                 ELSE [pid EXCEPT !.pc[p] = "write",
                                  !.file = written(@, pid.fd[p], <<>>)]
    /\ UNCHANGED NotPid

\* pidfile = open(config.pidfilename, 'w'): the file is created or emptied
Create(p) ==
    /\ pid.pc[p] = "create"
    /\ pid' = IF pid.file = NoFile
              THEN [pid EXCEPT !.pc[p] = "write", !.fd[p] = pid.inodes + 1,
                               !.inodes = @ + 1,
                               !.file = PidFile(pid.inodes + 1, <<>>)]
              ELSE [pid EXCEPT !.pc[p] = "write", !.fd[p] = pid.file[1].ino,
                               !.file = PidFile(pid.file[1].ino, <<>>)]
    /\ UNCHANGED NotPid

\* pidfile.write(pid) and pidfile.close(); __migrate_series is entered
Write(p) ==
    /\ pid.pc[p] = "write"
    /\ pid' = [pid EXCEPT !.pc[p] = "migrate",
                          !.file = written(@, pid.fd[p], <<p>>)]
    /\ UNCHANGED NotPid

\* __migrate_series is left and the pidfile is removed
Exit(p) ==
    /\ pid.pc[p] = "migrate"
    /\ pid' = [pid EXCEPT !.pc[p] = "exited", !.file = NoFile]
    /\ UNCHANGED NotPid

PidNext ==
    \E p \in Instances :
        \/ Open(p)
        \/ Readline(p)
        \/ Kill(p)
        \/ Create(p)
        \/ Write(p)
        \/ Exit(p)

PidSpec == PidInit /\ [][PidNext]_vars

\* C28: at most one instance is in __migrate_series at any time.
C28_OneInstance ==
    \A p, q \in Instances : Running(p) /\ Running(q) => p = q

\* an instance that aborts leaves the pidfile as it is
C28_AbortKeepsPidfile ==
    [][\A p \in Instances :
          pid.pc[p] = "kill" /\ pid'.pc[p] = "aborted" => pid'.file = pid.file]_vars

\* ============================================ the tree and the path map
\* the elements of the tree that the exporter holds
TreeElements == {w.el : w \in Range(Work(services[1].mp[1]))}

\* C29: after a completed export every element URL of the tree is a key of
\* the path map, no two elements of the tree share a URL, and every key of
\* the path map is the URL of an element of the tree.
C29_UrlsAndKeys ==
    Completed =>
        /\ \A e \in TreeElements :
              \E key \in DOMAIN services[1].paths : e.url = Url(FALSE, key)
        /\ \A e, f \in TreeElements : e.url = f.url => e = f
        /\ \A key \in DOMAIN services[1].paths :
              \E e \in TreeElements : e.url = Url(FALSE, key)

\* the same with the keys of the path map that are descriptor files left out
C29_UrlsAndOtherKeys ==
    Completed =>
        /\ \A e \in TreeElements :
              \E key \in DOMAIN services[1].paths : e.url = Url(FALSE, key)
        /\ \A e, f \in TreeElements : e.url = f.url => e = f
        /\ \A key \in DOMAIN services[1].paths :
              splitext(key) # SMIL_EXT =>
                  \E e \in TreeElements : e.url = Url(FALSE, key)

\* ============================================== identifier or fetched tree
\* the mediapackage of the pass in the other form: the tree that the search
\* service returns for an identifier, the identifier for that tree
OtherForm(mediap, found) ==
    IF mediap.kind = "id" THEN [kind |-> "tree", mp |-> <<found[1]>>]
    ELSE [kind |-> "id"]

\* the search service returns one mediapackage, which is the one of the pass
SameMediapackage(mediap, found) ==
    /\ Len(found) = 1
    /\ mediap.kind = "tree" => mediap.mp = <<found[1]>>

\* C30: PublishServiceExport.export leaves the same tree, with the same
\* flattened tracks and quality tags, and the same path map whether the
\* mediapackage is passed as its identifier or as its fetched tree.
C30_IdOrTree ==
    (/\ outcome.op = "export"
     /\ services[1].kind = "publish"
     /\ SameMediapackage(outcome.mediap, backend["search"])) =>
        \E other \in {service_export(services[1], files, smilFiles,
                                     backend["search"],
                                     OtherForm(outcome.mediap, backend["search"]),
                                     filters)} :
            /\ other.exc = outcome.exc
            /\ other.svc.mp = services[1].mp
            /\ other.svc.paths = services[1].paths

\* C30 for mediapackages without quality tags, which holds
C30_IdOrTreeUntagged ==
    (/\ outcome.op = "export"
     /\ services[1].kind = "publish"
     /\ SameMediapackage(outcome.mediap, backend["search"])
     /\ extract_quality_tags(backend["search"][1]) = <<>>) =>
        \E other \in {service_export(services[1], files, smilFiles,
                                     backend["search"],
                                     OtherForm(outcome.mediap, backend["search"]),
                                     filters)} :
            /\ other.exc = outcome.exc
            /\ other.svc.mp = services[1].mp
            /\ other.svc.paths = services[1].paths


====
